---- MODULE Spec2Model ----
(***************************************************************************)
(* The delta xDS client of agentgateway (crates/xds/src/client.rs): the    *)
(* typed resource cache, on-demand waiters, ACK/NACK replies, the          *)
(* readiness signal and the reconnect loop with its backoff.               *)
(***************************************************************************)
EXTENDS Integers, Sequences, FiniteSets, TLC

(***************************************************************************)
(* Bounds of the model.                                                    *)
(***************************************************************************)
\* connection attempts explored by the specifications that process responses
MaxConn == 2
\* connection attempts explored by the reconnect-loop specification
MaxReconnect == 13
\* entries of resources plus removed_resources in one response
MaxItems == 2
\* requests the request channel holds in the model (the code's is 100)
ReqChannelBound == 1
\* demands the demand channel holds in the model (the code's is 100)
DemandChannelBound == 2
\* frames of one response stream the translator is fed
MaxEvents == 4
\* messages of one universal request
MaxMessages == 3
\* content blocks of one provider response
MaxBlocks == 3
\* reloads of the local config file explored
MaxReloads == 3
\* Strng values created
MaxStrngs == 4

(***************************************************************************)
(* Values.                                                                 *)
(***************************************************************************)
ADDRESS_TYPE == "type.googleapis.com/agentgateway.dev.workload.Address"
AUTHORIZATION_TYPE == "type.googleapis.com/istio.security.Authorization"
ADP_TYPE == "type.googleapis.com/agentgateway.dev.resource.Resource"

TypeUrls == {ADDRESS_TYPE, ADP_TYPE, AUTHORIZATION_TYPE}
Names == {"a", "b"}
Nonces == {"n1", "n2"}
Callers == {"c1", "c2", "c3"}

\* Option<T>
None == [some |-> FALSE]
Some(x) == [some |-> TRUE, value |-> x]

\* Result<T, E>
Ok(x) == [ok |-> TRUE, value |-> x]
Err(e) == [ok |-> FALSE, err |-> e]

\* Durations, in milliseconds
INITIAL_BACKOFF == 10
MAX_BACKOFF == 15000

Min(x, y) == IF x <= y THEN x ELSE y

\* the elements of a sequence
Range(s) == {s[i] : i \in 1..Len(s)}

ResourceKey(type_url, name) == [name |-> name, type_url |-> type_url]

\* DeltaDiscoveryRequest { ..Default::default() }
DefaultRequest ==
  [type_url |-> "",
   resource_names_subscribe |-> <<>>,
   resource_names_unsubscribe |-> <<>>,
   initial_resource_versions |-> [n \in {} |-> ""],
   response_nonce |-> "",
   error_detail |-> None,
   node |-> FALSE]

(***************************************************************************)
(* Config: the handlers and the initial requests.                          *)
(***************************************************************************)
\* Config::new
Config_new == [handlers |-> {}, initial_requests |-> <<>>, on_demand |-> FALSE]

\* an initial request built without regard to the handler's no_on_demand
construct_initial_request_IgnoresHandler(cfg, request_type, no_on_demand) ==
  LET star == IF cfg.on_demand THEN <<"*">> ELSE <<>>
  IN [DefaultRequest EXCEPT !.type_url = request_type,
                            !.node = TRUE,
                            !.resource_names_subscribe = star,
                            !.resource_names_unsubscribe = star]

\* Config::construct_initial_request
construct_initial_request(cfg, request_type, no_on_demand) ==
  LET star == IF (~no_on_demand) /\ cfg.on_demand THEN <<"*">> ELSE <<>>
  IN [DefaultRequest EXCEPT !.type_url = request_type,
                            !.node = TRUE,
                            !.resource_names_subscribe = star,
                            !.resource_names_unsubscribe = star]

\* Config::with_watched_handler = with_handler, then watch
with_watched_handler(cfg, type_url, no_on_demand) ==
  [cfg EXCEPT !.handlers = @ \cup {type_url},
              !.initial_requests =
                 Append(@, construct_initial_request(cfg, type_url, no_on_demand))]

\* The client StateManager::new builds: Address and Resource watched, the
\* Authorization type declared and not registered, on_demand left false.
StateManagerConfig ==
  with_watched_handler(
    with_watched_handler(Config_new, ADDRESS_TYPE, FALSE), ADP_TYPE, FALSE)

\* An on-demand client with one watched type whose handler allows on-demand.
OnDemandConfig ==
  with_watched_handler([Config_new EXCEPT !.on_demand = TRUE], ADDRESS_TYPE, FALSE)

\* A client that watches the Address and the Resource type, in on-demand
\* mode or not, with handlers whose no_on_demand() is as given.
WatchedConfig(on_demand, address_no_on_demand, adp_no_on_demand) ==
  with_watched_handler(
    with_watched_handler([Config_new EXCEPT !.on_demand = on_demand],
                         ADDRESS_TYPE, address_no_on_demand),
    ADP_TYPE, adp_no_on_demand)

\* AdsClient::is_initial_request_on_demand
is_initial_request_on_demand(r) == r.resource_names_subscribe # <<>>

\* AdsClient::new: the types whose first ACK the readiness signal waits for
InitialTypesToExpect(cfg) ==
  {cfg.initial_requests[i].type_url :
     i \in {j \in 1..Len(cfg.initial_requests) :
              ~is_initial_request_on_demand(cfg.initial_requests[j])}}

(***************************************************************************)
(* Discovery responses.                                                    *)
(***************************************************************************)
\* The bytes of a resource: a valid T, a T the handler rejects, or bytes
\* that are no T at all.
Payloads == {"valid", "invalid", "garbage"}

\* Resource { name, resource: Option<Any> }
ProtoResources ==
  {[name |-> n, resource |-> r] :
     n \in Names, r \in {None} \cup {Some(p) : p \in Payloads}}

\* sequences of length at most n, names in ascending order
ResourceLists(n) ==
  {s \in UNION {[1..k -> ProtoResources] : k \in 0..n} :
     \A i \in 1..(Len(s) - 1) : s[i].name = "a" /\ s[i + 1].name = "b"}
NameLists(n) ==
  {s \in UNION {[1..k -> Names] : k \in 0..n} :
     \A i \in 1..(Len(s) - 1) : s[i] = "a" /\ s[i + 1] = "b"}

\* the resources and removed_resources of a response, MaxItems entries at most
ResponseBodies ==
  {b \in ResourceLists(MaxItems) \X NameLists(MaxItems) :
     Len(b[1]) + Len(b[2]) <= MaxItems}

\* DeltaDiscoveryResponse { type_url, nonce, resources, removed_resources }
Responses(types, nonces) ==
  {[type_url |-> t, nonce |-> n, resources |-> b[1], removed_resources |-> b[2]] :
     t \in types, n \in nonces, b \in ResponseBodies}

\* the responses the servers of the specifications send
AnyResponses == Responses(TypeUrls, Nonces)
OnDemandResponses == Responses({ADDRESS_TYPE, AUTHORIZATION_TYPE}, Nonces)
UnhandledResponses == Responses({AUTHORIZATION_TYPE}, {"n1"})

(***************************************************************************)
(* Decoding and the typed handler.                                         *)
(***************************************************************************)
\* AdsError, by its Display text
MissingResource == "XDS payload without resource"
DecodeError == "decode: invalid wire type"
HandlerError == "rejected by handler"

\* decode_proto: Result<XdsResource<T>, AdsError>
decode_proto(resource) ==
  IF ~resource.resource.some THEN Err(MissingResource)
  ELSE IF resource.resource.value = "garbage" THEN Err(DecodeError)
  ELSE Ok([name |-> resource.name, resource |-> resource.resource.value])

\* XdsUpdate<T>
XdsUpdate_Update(r) == [kind |-> "Update", name |-> r.name, resource |-> r.resource]
XdsUpdate_Remove(n) == [kind |-> "Remove", name |-> n]

\* RejectedConfig::new
RejectedConfig(name, reason) == [name |-> name, reason |-> reason]

\* impl Display for RejectedConfig: "{name}: {reason}", as its pieces
RejectedConfig_to_string(reject) == <<reject.name, ": ", reject.reason>>

\* The closure a store handler gives handle_single_resource: an upsert of a
\* value it accepts is stored, a removal deletes, a value it does not accept
\* is an error and leaves the store as it was.
handle_one(names, update) ==
  IF update.kind = "Remove" THEN Ok(names \ {update.name})
  ELSE IF update.resource = "valid" THEN Ok(names \cup {update.name})
  ELSE Err(HandlerError)

\* handle_single_resource: every update is tried, the failures are collected
RECURSIVE handle_single_resource(_, _)
handle_single_resource(updates, names) ==
  IF updates = <<>> THEN [names |-> names, rejects |-> <<>>]
  ELSE LET one == handle_one(names, Head(updates))
           rest == handle_single_resource(Tail(updates),
                                          IF one.ok THEN one.value ELSE names)
       IN [names |-> rest.names,
           rejects |-> (IF one.ok THEN <<>>
                        ELSE <<RejectedConfig(Head(updates).name, one.err)>>)
                       \o rest.rejects]

\* Handler::handle of a store: Ok(()) or the rejected configs
Handler_handle(updates, names) ==
  LET r == handle_single_resource(updates, names)
  IN [names |-> r.names,
      result |-> IF r.rejects = <<>> THEN Ok(<<>>) ELSE Err(r.rejects)]

(***************************************************************************)
(* State: known_resources and pending.  A State value s is a record        *)
(* [known_resources, pending, notified]; notified collects the one-shot    *)
(* sends of the call in progress, each with what the receiver finds in the *)
(* domain store at that moment.                                            *)
(***************************************************************************)
MapRemove(f, k) == [x \in (DOMAIN f) \ {k} |-> f[x]]
MapInsert(f, k, v) == [x \in (DOMAIN f) \cup {k} |-> IF x = k THEN v ELSE f[x]]

\* State::notify_on_demand, run while the domain store holds `visible`
notify_on_demand(s, key, visible) ==
  IF key \in DOMAIN s.pending
  THEN [s EXCEPT !.pending = MapRemove(s.pending, key),
                 !.notified = @ \cup {[tx |-> s.pending[key],
                                       seen |-> key.name \in visible[key.type_url]]}]
  ELSE s

\* State::add_resource
add_resource(s, type_url, name) ==
  [s EXCEPT !.known_resources[type_url] = @ \cup {name}]

\* for name in res.removed_resources { ... }
RECURSIVE RemovedLoop(_, _, _, _)
RemovedLoop(s, type_url, removed, visible) ==
  IF removed = <<>> THEN s
  ELSE LET k == ResourceKey(type_url, Head(removed))
           s1 == [s EXCEPT !.known_resources[k.type_url] = @ \ {k.name}]
       IN RemovedLoop(notify_on_demand(s1, k, visible), type_url, Tail(removed), visible)

\* the resources loop without its notify_on_demand call
RECURSIVE ResourcesLoopNoNotify(_, _, _, _)
ResourcesLoopNoNotify(s, type_url, resources, visible) ==
  IF resources = <<>> THEN s
  ELSE ResourcesLoopNoNotify(add_resource(s, type_url, Head(resources).name),
                             type_url, Tail(resources), visible)

\* for r in res.resources { ... }
RECURSIVE ResourcesLoop(_, _, _, _)
ResourcesLoop(s, type_url, resources, visible) ==
  IF resources = <<>> THEN s
  ELSE LET key == ResourceKey(type_url, Head(resources).name)
           s1 == notify_on_demand(s, key, visible)
       IN ResourcesLoop(add_resource(s1, key.type_url, key.name),
                        type_url, Tail(resources), visible)

\* the two loops in the other order: resources, then removals
UpdateXdsCacheResourcesFirst(s, res, visible) ==
  RemovedLoop(ResourcesLoop(s, res.type_url, res.resources, visible),
              res.type_url, res.removed_resources, visible)

\* the xds cache update of HandlerWrapper::handle: removals, then resources
UpdateXdsCache(s, res, visible) ==
  ResourcesLoop(RemovedLoop(s, res.type_url, res.removed_resources, visible),
                res.type_url, res.resources, visible)

\* the domain store as it was before the handler ran
StoreBeforeHandler(before, after) == before

\* the domain store the notifications of one response are sent under: the
\* handler has returned before the first of them
StoreAtNotify(before, after) == after

\* the handler's result alone, the decode failures dropped
MergeResultsIgnoresDecodeFailures(result, decode_failures) == result

\* match (result, decode_failures.is_empty())
MergeResults(result, decode_failures) ==
  IF result.ok /\ decode_failures = <<>> THEN Ok(<<>>)
  ELSE IF result.ok THEN Err(decode_failures)
  ELSE IF decode_failures = <<>> THEN result
  ELSE Err(result.err \o decode_failures)

IsOk(r) == r.ok
IsErr(r) == ~r.ok
ToUpdate(r) == XdsUpdate_Update(r.value)
ToRemove(n) == XdsUpdate_Remove(n)
ToReject(p) == RejectedConfig(p[1], p[2].err)

Map(s, F(_)) == [i \in 1..Len(s) |-> F(s[i])]

\* a HandlerWrapper::handle that gives up on the first decode failure: the
\* handler is not called for a response with an undecodable resource
HandlerWrapper_handle_ShortCircuit(s, store, res) ==
  LET type_url == res.type_url
      decoded == Map(res.resources, decode_proto)
      named == [i \in 1..Len(decoded) |-> <<res.resources[i].name, decoded[i]>>]
      decode_failures == Map(SelectSeq(named, LAMBDA p : IsErr(p[2])), ToReject)
      updates == IF decode_failures # <<>> THEN <<>>
                 ELSE Map(SelectSeq(decoded, IsOk), ToUpdate)
                        \o Map(res.removed_resources, ToRemove)
      handled == Handler_handle(updates, store[type_url])
      after == [store EXCEPT ![type_url] = handled.names]
      s1 == UpdateXdsCache(s, res, StoreAtNotify(store, after))
  IN [state |-> s1,
      store |-> after,
      updates |-> updates,
      result |-> MergeResults(handled.result, decode_failures)]

\* HandlerWrapper::handle(state, res) on a domain store holding `store`
HandlerWrapper_handle(s, store, res) ==
  LET type_url == res.type_url
      decoded == Map(res.resources, decode_proto)
      named == [i \in 1..Len(decoded) |-> <<res.resources[i].name, decoded[i]>>]
      updates == Map(SelectSeq(decoded, IsOk), ToUpdate)
                   \o Map(res.removed_resources, ToRemove)
      handled == Handler_handle(updates, store[type_url])
      after == [store EXCEPT ![type_url] = handled.names]
      decode_failures == Map(SelectSeq(named, LAMBDA p : IsErr(p[2])), ToReject)
      s1 == UpdateXdsCache(s, res, StoreAtNotify(store, after))
  IN [state |-> s1,
      store |-> after,
      updates |-> updates,
      result |-> MergeResults(handled.result, decode_failures)]

(***************************************************************************)
(* handle_stream_event and handle_demand_event, as functions of the state. *)
(***************************************************************************)
\* Vec<String>::join(sep), the strings given by their pieces
RECURSIVE Join(_, _)
Join(strs, sep) ==
  IF strs = <<>> THEN <<>>
  ELSE IF Len(strs) = 1 THEN strs[1]
  ELSE strs[1] \o <<sep>> \o Join(Tail(strs), sep)

\* Error::RequestFailure
RequestFailure == [kind |-> "RequestFailure"]

\* mpsc::Sender::send on the request channel: the request is queued, or the
\* receiver is gone and the send is an error
SendRequest(open, req) == IF open THEN Ok(<<req>>) ELSE Err(RequestFailure)

\* a reply that does not echo the nonce
AckRequestNoNonce(type_url, nonce, error) ==
  [DefaultRequest EXCEPT !.type_url = type_url, !.error_detail = error]

\* the DeltaDiscoveryRequest handle_stream_event answers a response with
AckRequest(type_url, nonce, error) ==
  [DefaultRequest EXCEPT !.type_url = type_url,
                         !.response_nonce = nonce,
                         !.error_detail = error]

\* a handle_stream_event that does not answer a response of an unknown type
handle_stream_event_UnknownUnanswered(cfg, s, store, response, open) ==
  LET type_url == response.type_url
      nonce == response.nonce
      h == IF type_url \in cfg.handlers
           THEN HandlerWrapper_handle(s, store, response)
           ELSE [state |-> s, store |-> store, updates |-> <<>>, result |-> Ok(<<>>)]
      response_type == IF h.result.ok THEN "Ack" ELSE "Nack"
      error == IF h.result.ok THEN None
               ELSE Some(Join(Map(h.result.err, RejectedConfig_to_string), "; "))
      sent == IF type_url \in cfg.handlers
              THEN SendRequest(open, AckRequest(type_url, nonce, error))
              ELSE Ok(<<>>)
  IN [state |-> h.state,
      store |-> h.store,
      sent |-> IF sent.ok THEN sent.value ELSE <<>>,
      result |-> IF sent.ok THEN Ok(response_type) ELSE Err(sent.err)]

\* a handle_stream_event that returns the rejects as its error
handle_stream_event_NackEnds(cfg, s, store, response, open) ==
  LET h == IF response.type_url \in cfg.handlers
           THEN HandlerWrapper_handle(s, store, response)
           ELSE [state |-> s, store |-> store, updates |-> <<>>, result |-> Ok(<<>>)]
      sent == SendRequest(open, AckRequest(response.type_url, response.nonce, None))
  IN [state |-> h.state,
      store |-> h.store,
      sent |-> IF h.result.ok /\ sent.ok THEN sent.value ELSE <<>>,
      result |-> IF ~h.result.ok THEN Err([kind |-> "Rejected"])
                 ELSE IF sent.ok THEN Ok("Ack") ELSE Err(sent.err)]

\* AdsClient::handle_stream_event
handle_stream_event(cfg, s, store, response, open) ==
  LET type_url == response.type_url
      nonce == response.nonce
      h == IF type_url \in cfg.handlers
           THEN HandlerWrapper_handle(s, store, response)
           ELSE [state |-> s, store |-> store, updates |-> <<>>, result |-> Ok(<<>>)]
      response_type == IF h.result.ok THEN "Ack" ELSE "Nack"
      error == IF h.result.ok THEN None
               ELSE Some(Join(Map(h.result.err, RejectedConfig_to_string), "; "))
      sent == SendRequest(open, AckRequest(type_url, nonce, error))
  IN [state |-> h.state,
      store |-> h.store,
      sent |-> IF sent.ok THEN sent.value ELSE <<>>,
      result |-> IF sent.ok THEN Ok(response_type) ELSE Err(sent.err)]

\* handle_demand_event without its add_resource call
handle_demand_event_NoAdd(s, tx, key, open) ==
  LET s1 == [s EXCEPT !.pending = MapInsert(s.pending, key, tx)]
      sent == SendRequest(open, [DefaultRequest EXCEPT
                                   !.type_url = key.type_url,
                                   !.resource_names_subscribe = <<key.name>>])
  IN [state |-> s1,
      replaced |-> IF key \in DOMAIN s.pending THEN {s.pending[key]} ELSE {},
      sent |-> IF sent.ok THEN sent.value ELSE <<>>,
      result |-> IF sent.ok THEN Ok(<<>>) ELSE Err(sent.err)]

\* a handle_demand_event that subscribes only to names it does not know yet
handle_demand_event_SkipsKnown(s, tx, key, open) ==
  LET s1 == [s EXCEPT !.pending = MapInsert(s.pending, key, tx)]
      s2 == add_resource(s1, key.type_url, key.name)
      sent == IF key.name \in s.known_resources[key.type_url]
              THEN Ok(<<>>)
              ELSE SendRequest(open, [DefaultRequest EXCEPT
                                        !.type_url = key.type_url,
                                        !.resource_names_subscribe = <<key.name>>])
  IN [state |-> s2,
      replaced |-> IF key \in DOMAIN s.pending THEN {s.pending[key]} ELSE {},
      sent |-> IF sent.ok THEN sent.value ELSE <<>>,
      result |-> IF sent.ok THEN Ok(<<>>) ELSE Err(sent.err)]

\* a handle_demand_event that keeps the notifier a key already has and
\* drops the new one
handle_demand_event_KeepsFirst(s, tx, key, open) ==
  LET s1 == IF key \in DOMAIN s.pending THEN s
            ELSE [s EXCEPT !.pending = MapInsert(s.pending, key, tx)]
      s2 == add_resource(s1, key.type_url, key.name)
      sent == SendRequest(open, [DefaultRequest EXCEPT
                                   !.type_url = key.type_url,
                                   !.resource_names_subscribe = <<key.name>>])
  IN [state |-> s2,
      replaced |-> IF key \in DOMAIN s.pending THEN {tx} ELSE {},
      sent |-> IF sent.ok THEN sent.value ELSE <<>>,
      result |-> IF sent.ok THEN Ok(<<>>) ELSE Err(sent.err)]

\* AdsClient::handle_demand_event for Some((tx, key))
handle_demand_event(s, tx, key, open) ==
  LET s1 == [s EXCEPT !.pending = MapInsert(s.pending, key, tx)]
      s2 == add_resource(s1, key.type_url, key.name)
      sent == SendRequest(open, [DefaultRequest EXCEPT
                                   !.type_url = key.type_url,
                                   !.resource_names_subscribe = <<key.name>>])
  IN [state |-> s2,
      replaced |-> IF key \in DOMAIN s.pending THEN {s.pending[key]} ELSE {},
      sent |-> IF sent.ok THEN sent.value ELSE <<>>,
      result |-> IF sent.ok THEN Ok(<<>>) ELSE Err(sent.err)]

\* the configured initial requests sent as they are
BuildInitialRequestsNoVersions(cfg, known) == cfg.initial_requests

\* run_internal: the initial requests of a connection
BuildInitialRequests(cfg, known) ==
  [i \in 1..Len(cfg.initial_requests) |->
     [cfg.initial_requests[i] EXCEPT
        !.initial_resource_versions =
           [n \in known[cfg.initial_requests[i].type_url] |-> ""]]]

\* run_internal, after handle_stream_event returned `result` for a response
\* of type received: the types still expected and the readiness signal
AfterStreamEvent(expect, ready, received, result) ==
  LET received_type == IF expect # {} THEN Some(received) ELSE None
      acked == result.ok /\ result.value = "Ack" /\ received_type.some
      left == IF acked THEN expect \ {received_type.value} ELSE expect
  IN [types_to_expect |-> left,
      block_ready |-> IF acked /\ left = {} THEN FALSE ELSE ready]

(***************************************************************************)
(* run_loop: what the end of run_internal does to the backoff.             *)
(***************************************************************************)
\* tonic::Status { code, message }, the message as words
Codes == {"Cancelled", "DeadlineExceeded", "Unavailable", "Internal"}
Messages ==
  {<<>>,
   <<"error:", "transport", "is", "closing">>,
   <<"received", "prior", "goaway", "from", "server">>,
   <<"transport", "is", "not", "closing">>}
Statuses == {[code |-> c, message |-> m] : c \in Codes, m \in Messages}

\* str::contains
Contains(s, pat) ==
  \E i \in 1..(Len(s) - Len(pat) + 1) : SubSeq(s, i, i + Len(pat) - 1) = pat

\* the results of run_internal
Error_Connection(status) == [kind |-> "Connection", status |-> status]
Error_Transport == [kind |-> "Transport"]
Error_GrpcStatus(status) == [kind |-> "GrpcStatus", status |-> status]

\* the test of the GrpcStatus arm
IsNormalReconnect(status) ==
  \/ status.code = "Cancelled"
  \/ status.code = "DeadlineExceeded"
  \/ (status.code = "Unavailable"
        /\ Contains(status.message, <<"transport", "is", "closing">>))
  \/ (status.code = "Unavailable"
        /\ Contains(status.message, <<"received", "prior", "goaway">>))

\* ConnectionTerminationReason, the labels of the termination counter
ConnectionTerminationReasons == {"ConnectionError", "Reconnect", "Error", "Complete"}

\* Metrics::increment(&reason): the counter of that label goes up by one
Metrics_increment(m, reason) == [m EXCEPT ![reason] = @ + 1]

\* doubling without the cap
NextBackoffUncapped(backoff) == backoff * 2

\* std::cmp::min(MAX_BACKOFF, backoff * 2)
NextBackoff(backoff) == Min(MAX_BACKOFF, backoff * 2)

\* an Ok(_) arm that sleeps the initial backoff
CompleteArmSleeps ==
  [backoff |-> INITIAL_BACKOFF, slept |-> INITIAL_BACKOFF, reason |-> "Complete"]

\* the Ok(_) arm of run_loop: no sleep, the backoff is reset
CompleteArm == [backoff |-> INITIAL_BACKOFF, slept |-> 0, reason |-> "Complete"]

\* an Err(e) arm that counts the end as a clean one
OtherErrorArmCountsComplete ==
  [backoff |-> INITIAL_BACKOFF, slept |-> 0, reason |-> "Complete"]

\* the Err(e) arm of run_loop, for the errors no other arm takes
OtherErrorArm == [backoff |-> INITIAL_BACKOFF, slept |-> 0, reason |-> "Error"]

\* AdsClient::run_loop(backoff) once run_internal has returned `result`:
\* the backoff returned, the time slept and the termination reason counted
run_loop(backoff, result) ==
  IF ~result.ok /\ result.err.kind \in {"Connection", "Transport"}
  THEN LET b == NextBackoff(backoff)
       IN [backoff |-> b, slept |-> b, reason |-> "ConnectionError"]
  ELSE IF ~result.ok /\ result.err.kind = "GrpcStatus"
  THEN IF IsNormalReconnect(result.err.status)
       THEN [backoff |-> INITIAL_BACKOFF, slept |-> INITIAL_BACKOFF,
             reason |-> "Reconnect"]
       ELSE LET b == NextBackoff(backoff)
            IN [backoff |-> b, slept |-> b, reason |-> "Error"]
  ELSE IF ~result.ok
  THEN OtherErrorArm
  ELSE CompleteArm

(***************************************************************************)
(* llm/anthropic.rs: the translation of a streamed response.               *)
(***************************************************************************)
\* `x as u32` of a usize below 2^31, the range of the token counts here:
\* the cast keeps the value
U32(x) == x

\* the text of a delta, as its characters
Texts == {<<>>, <<"h", "e">>, <<"l", "l", "o">>}

\* the MessagesResponse a message_start event carries
StartMessages ==
  {[id |-> "r", model |-> "m", usage |-> [input_tokens |-> 3, output_tokens |-> 0]],
   [id |-> "s", model |-> "n", usage |-> [input_tokens |-> 0, output_tokens |-> 1]]}

\* MessageDeltaUsage.output_tokens
OutputTokens == {0, 2}

\* types::MessagesStreamEvent
MessagesStreamEvent ==
  {[type |-> "MessageStart", message |-> m] : m \in StartMessages}
    \cup {[type |-> "ContentBlockStart"]}
    \cup {[type |-> "ContentBlockDelta", delta |-> [text |-> t]] : t \in Texts}
    \cup {[type |-> "ContentBlockStop"]}
    \cup {[type |-> "MessageDelta", usage |-> [output_tokens |-> n]] : n \in OutputTokens}
    \cup {[type |-> "MessageStop"], [type |-> "Ping"]}

\* what json_transform hands the closure for a frame: the parsed event, or
\* the error of parsing it
Frames == {Ok(e) : e \in MessagesStreamEvent} \cup {Err("parse")}

\* LLMResponse, the fields the translator writes, before the stream
EmptyLog ==
  [first_token |-> None,
   output_tokens |-> None,
   input_tokens_from_response |-> None,
   total_tokens |-> None,
   provider_model |-> None]

\* AsyncLog::non_atomic_mutate(|r| ...): the record becomes what the closure
\* made of it
non_atomic_mutate(r, mutated) == mutated

\* a chunk that leaves the model out
mk_WithoutModel(st, choices, usage) ==
  Some([id |-> IF st.message_id.some THEN st.message_id.value ELSE "unknown",
        model |-> "",
        object |-> "chat.completion.chunk",
        system_fingerprint |-> None,
        service_tier |-> None,
        created |-> st.created,
        choices |-> choices,
        usage |-> usage])

\* the closure `mk`: a chunk with the captured id, model and created
mk(st, choices, usage) ==
  Some([id |-> IF st.message_id.some THEN st.message_id.value ELSE "unknown",
        model |-> st.model,
        object |-> "chat.completion.chunk",
        system_fingerprint |-> None,
        service_tier |-> None,
        created |-> st.created,
        choices |-> choices,
        usage |-> usage])

\* MessagesStreamEvent::MessageStart { message } => ...
MessageStartArm(st, log, message) ==
  [st |-> [st EXCEPT !.message_id = Some(message.id),
                     !.model = message.model,
                     !.input_tokens = message.usage.input_tokens],
   log |-> non_atomic_mutate(log,
             [log EXCEPT !.output_tokens = Some(message.usage.output_tokens),
                         !.input_tokens_from_response = Some(message.usage.input_tokens),
                         !.provider_model = Some(message.model)]),
   out |-> None]

\* universal::ChatChoiceStream of a text delta
TextChoice(text) ==
  [index |-> 0,
   logprobs |-> None,
   delta |-> [role |-> None,
              content |-> Some(text),
              refusal |-> None,
              function_call |-> None,
              tool_calls |-> None],
   finish_reason |-> None]

\* a ContentBlockDelta arm that stamps first_token at every delta
ContentBlockDeltaArm_Restamps(st, log, delta, now) ==
  LET st1 == [st EXCEPT !.saw_token = TRUE]
  IN [st |-> st1,
      log |-> non_atomic_mutate(log, [log EXCEPT !.first_token = Some(now)]),
      out |-> mk(st1, <<TextChoice(delta.text)>>, None)]

\* MessagesStreamEvent::ContentBlockDelta { delta, .. } => ...
ContentBlockDeltaArm(st, log, delta, now) ==
  LET st1 == [st EXCEPT !.saw_token = TRUE]
      log1 == IF ~st.saw_token
              THEN non_atomic_mutate(log, [log EXCEPT !.first_token = Some(now)])
              ELSE log
  IN [st |-> st1,
      log |-> log1,
      out |-> mk(st1, <<TextChoice(delta.text)>>, None)]

\* a MessageDelta arm that totals with the captured input_tokens, set or not
MessageDeltaArm_TotalsUnseeded(st, log, usage) ==
  LET log1 == [log EXCEPT !.output_tokens = Some(usage.output_tokens),
                          !.total_tokens = Some(st.input_tokens + usage.output_tokens)]
  IN [st |-> st,
      log |-> non_atomic_mutate(log, log1),
      out |-> mk(st, <<>>,
                 Some([prompt_tokens |-> U32(usage.output_tokens),
                       completion_tokens |-> U32(st.input_tokens),
                       total_tokens |-> U32(st.input_tokens + usage.output_tokens),
                       prompt_tokens_details |-> None,
                       completion_tokens_details |-> None]))]

\* MessagesStreamEvent::MessageDelta { usage, delta: _ } => ...
MessageDeltaArm(st, log, usage) ==
  LET log1 == [log EXCEPT !.output_tokens = Some(usage.output_tokens)]
      log2 == IF log1.input_tokens_from_response.some
              THEN [log1 EXCEPT !.total_tokens =
                      Some(log1.input_tokens_from_response.value + usage.output_tokens)]
              ELSE log1
  IN [st |-> st,
      log |-> non_atomic_mutate(log, log2),
      out |-> mk(st, <<>>,
                 Some([prompt_tokens |-> U32(usage.output_tokens),
                       completion_tokens |-> U32(st.input_tokens),
                       total_tokens |-> U32(st.input_tokens + usage.output_tokens),
                       prompt_tokens_details |-> None,
                       completion_tokens_details |-> None]))]

\* a translator that emits nothing for a delta without text
process_streaming_SkipsEmptyText(st, log, f, now) ==
  IF ~f.ok THEN [st |-> st, log |-> log, out |-> None]
  ELSE IF f.value.type = "MessageStart"
  THEN MessageStartArm(st, log, f.value.message)
  ELSE IF f.value.type = "ContentBlockDelta"
  THEN LET r == ContentBlockDeltaArm(st, log, f.value.delta, now)
       IN IF f.value.delta.text = <<>> THEN [r EXCEPT !.out = None] ELSE r
  ELSE IF f.value.type = "MessageDelta"
  THEN MessageDeltaArm(st, log, f.value.usage)
  ELSE [st |-> st, log |-> log, out |-> None]

\* Provider::process_streaming, the closure given to json_transform: the
\* captured state and the log after frame f, and the chunk returned
process_streaming(st, log, f, now) ==
  IF ~f.ok THEN [st |-> st, log |-> log, out |-> None]
  ELSE IF f.value.type = "MessageStart"
  THEN MessageStartArm(st, log, f.value.message)
  ELSE IF f.value.type = "ContentBlockStart"
  THEN [st |-> st, log |-> log, out |-> None]
  ELSE IF f.value.type = "ContentBlockDelta"
  THEN ContentBlockDeltaArm(st, log, f.value.delta, now)
  ELSE IF f.value.type = "MessageDelta"
  THEN MessageDeltaArm(st, log, f.value.usage)
  ELSE [st |-> st, log |-> log, out |-> None]

(***************************************************************************)
(* llm/anthropic.rs: the translation of requests and of whole responses.   *)
(***************************************************************************)
\* universal::SYSTEM_ROLE, universal::ASSISTANT_ROLE
SYSTEM_ROLE == "system"
ASSISTANT_ROLE == "assistant"

\* the roles and the contents of the messages of a universal request; a
\* text is given by its pieces
Roles == {SYSTEM_ROLE, "user", ASSISTANT_ROLE, "tool"}
MessageTexts == {<<"s1">>, <<"hi">>}
UniversalMessages ==
  [role : Roles, content : {None} \cup {Some(t) : t \in MessageTexts}]

\* universal::Request, its model and messages
Requests ==
  {[model |-> "m", messages |-> m] :
     m \in UNION {[1..n -> UniversalMessages] : n \in 0..MaxMessages}}

\* universal::message_role, universal::message_text
message_role(msg) == msg.role
message_text(msg) == msg.content

\* types::ContentBlock::Text { text }
TextBlock(text) == [type |-> "Text", text |-> text]

\* a translate_request that joins the system texts with spaces
translate_request_SpaceJoined(req) ==
  LET sys == SelectSeq(req.messages,
                       LAMBDA m : message_role(m) = SYSTEM_ROLE /\ message_text(m).some)
      rest == SelectSeq(req.messages,
                        LAMBDA m : message_role(m) # SYSTEM_ROLE /\ message_text(m).some)
  IN [messages |->
        [i \in 1..Len(rest) |->
           [role |-> IF message_role(rest[i]) = ASSISTANT_ROLE THEN "Assistant" ELSE "User",
            content |-> <<TextBlock(message_text(rest[i]).value)>>]],
      system |-> Join([i \in 1..Len(sys) |-> message_text(sys[i]).value], " "),
      model |-> req.model]

\* a translate_request that gives every message the user role
translate_request_AllUser(req) ==
  LET sys == SelectSeq(req.messages,
                       LAMBDA m : message_role(m) = SYSTEM_ROLE /\ message_text(m).some)
      rest == SelectSeq(req.messages,
                        LAMBDA m : message_role(m) # SYSTEM_ROLE /\ message_text(m).some)
  IN [messages |->
        [i \in 1..Len(rest) |->
           [role |-> "User",
            content |-> <<TextBlock(message_text(rest[i]).value)>>]],
      system |-> Join([i \in 1..Len(sys) |-> message_text(sys[i]).value], "\n"),
      model |-> req.model]

\* translate_request: the system prompt, the messages and the model of the
\* MessagesRequest (its other fields do not depend on the messages)
translate_request(req) ==
  LET sys == SelectSeq(req.messages,
                       LAMBDA m : message_role(m) = SYSTEM_ROLE /\ message_text(m).some)
      rest == SelectSeq(req.messages,
                        LAMBDA m : message_role(m) # SYSTEM_ROLE /\ message_text(m).some)
  IN [messages |->
        [i \in 1..Len(rest) |->
           [role |-> IF message_role(rest[i]) = ASSISTANT_ROLE THEN "Assistant" ELSE "User",
            content |-> <<TextBlock(message_text(rest[i]).value)>>]],
      system |-> Join([i \in 1..Len(sys) |-> message_text(sys[i]).value], "\n"),
      model |-> req.model]

\* Provider::process_request of a provider whose model override is `override`
process_request(override, req) ==
  translate_request(IF override.some THEN [req EXCEPT !.model = override.value] ELSE req)

\* types::ContentBlock of a response; the input of a tool use is a JSON
\* object given by its key and value
ContentBlocks ==
  {TextBlock(<<"t1">>), TextBlock(<<"t2">>),
   [type |-> "Image"],
   [type |-> "ToolUse", id |-> "u1", name |-> "f", input |-> [k |-> "city", v |-> "x"]],
   [type |-> "ToolUse", id |-> "u2", name |-> "g", input |-> [k |-> "n", v |-> "y"]],
   [type |-> "ToolResult"]}

\* types::MessagesResponse
ProviderResponses ==
  {[id |-> "r", model |-> "m", content |-> c, stop_reason |-> sr,
    usage |-> [input_tokens |-> 3, output_tokens |-> 2]] :
     c \in UNION {[1..n -> ContentBlocks] : n \in 0..MaxBlocks},
     sr \in {None, Some("EndTurn"), Some("ToolUse")}}

\* translate_stop_reason
translate_stop_reason(resp) ==
  CASE resp = "EndTurn" -> "Stop"
    [] resp = "MaxTokens" -> "Length"
    [] resp = "StopSequence" -> "Stop"
    [] resp = "ToolUse" -> "ToolCalls"
    [] resp = "Refusal" -> "ContentFilter"

\* serde_json::to_string of a tool input: the text of the JSON object
to_string(input) == Some(<<"{", "\"", input.k, "\"", ":", "\"", input.v, "\"", "}">>)

\* a content loop that keeps the first text it meets
RECURSIVE ContentLoopFirstText(_, _, _)
ContentLoopFirstText(blocks, content, tool_calls) ==
  IF blocks = <<>> THEN [content |-> content, tool_calls |-> tool_calls]
  ELSE LET block == Head(blocks)
       IN IF block.type = "Text"
          THEN ContentLoopFirstText(Tail(blocks),
                                    IF content.some THEN content ELSE Some(block.text),
                                    tool_calls)
          ELSE IF block.type = "ToolUse" /\ to_string(block.input).some
          THEN ContentLoopFirstText(Tail(blocks), content,
                           Append(tool_calls,
                                  [id |-> block.id,
                                   type |-> "Function",
                                   function |-> [name |-> block.name,
                                                 arguments |-> to_string(block.input).value]]))
          ELSE ContentLoopFirstText(Tail(blocks), content, tool_calls)

\* translate_response, the loop over resp.content: content and tool_calls
\* after the blocks
RECURSIVE ContentLoop(_, _, _)
ContentLoop(blocks, content, tool_calls) ==
  IF blocks = <<>> THEN [content |-> content, tool_calls |-> tool_calls]
  ELSE LET block == Head(blocks)
       IN IF block.type = "Text"
          THEN ContentLoop(Tail(blocks), Some(block.text), tool_calls)
          ELSE IF block.type = "ToolUse" /\ to_string(block.input).some
          THEN ContentLoop(Tail(blocks), content,
                           Append(tool_calls,
                                  [id |-> block.id,
                                   type |-> "Function",
                                   function |-> [name |-> block.name,
                                                 arguments |-> to_string(block.input).value]]))
          ELSE ContentLoop(Tail(blocks), content, tool_calls)

\* translate_response(resp) at wall-clock time now
translate_response(resp, now) ==
  LET l == ContentLoop(resp.content, None, <<>>)
      message == [role |-> "Assistant",
                  content |-> l.content,
                  tool_calls |-> IF l.tool_calls = <<>> THEN None ELSE Some(l.tool_calls),
                  function_call |-> None,
                  refusal |-> None,
                  audio |-> None]
      finish_reason == IF resp.stop_reason.some
                       THEN Some(translate_stop_reason(resp.stop_reason.value))
                       ELSE None
      choice == [index |-> 0, message |-> message, finish_reason |-> finish_reason,
                 logprobs |-> None]
  IN [id |-> resp.id,
      object |-> "chat.completion",
      created |-> now,
      model |-> resp.model,
      choices |-> <<choice>>,
      usage |-> Some([prompt_tokens |-> U32(resp.usage.input_tokens),
                      completion_tokens |-> U32(resp.usage.output_tokens),
                      total_tokens |-> U32(resp.usage.input_tokens + resp.usage.output_tokens),
                      prompt_tokens_details |-> None,
                      completion_tokens_details |-> None]),
      service_tier |-> None,
      system_fingerprint |-> None]

(***************************************************************************)
(* state_manager.rs: LocalClient, the local config file and its watcher.   *)
(***************************************************************************)
\* what cfg.read_to_string and NormalizedLocalConfig::from make of the file:
\* a config, whose discovery part the store accepts or not, or an error
LocalConfigs ==
  {[binds |-> {"b1"}, workloads |-> {"w1"}, valid |-> TRUE],
   [binds |-> {"b2"}, workloads |-> {"w2"}, valid |-> TRUE],
   [binds |-> {"b2"}, workloads |-> {"w1", "w2"}, valid |-> FALSE]}

FileContents == {Ok(c) : c \in LocalConfigs} \cup {Err("unreadable")}

\* PreviousState::default()
PreviousState_default == [binds |-> {}, discovery |-> {}]

\* stores.binds.sync_local(.., prev): what prev listed and the new config
\* does not is removed, the new binds are put; the names put are returned
binds_sync_local(binds, new, prev) ==
  [store |-> (binds \ prev) \cup new, next |-> new]

\* stores.discovery.sync_local(.., prev)?: as for binds, or an error that
\* leaves the discovery store as it was
discovery_sync_local(discovery, new, valid, prev) ==
  IF valid
  THEN [store |-> (discovery \ prev) \cup new, result |-> Ok(new)]
  ELSE [store |-> discovery, result |-> Err("sync_local")]

\* LocalClient::reload_config(prev) when the file holds `content`: the
\* stores afterwards and the Result returned
reload_config(content, stores, prev) ==
  IF ~content.ok
  THEN [stores |-> stores, result |-> Err(content.err)]
  ELSE LET config == content.value
           next_binds == binds_sync_local(stores.binds, config.binds, prev.binds)
           next_discovery == discovery_sync_local(stores.discovery, config.workloads,
                                                  config.valid, prev.discovery)
           synced == [binds |-> next_binds.store, discovery |-> next_discovery.store]
       IN IF next_discovery.result.ok
          THEN [stores |-> synced,
                result |-> Ok([binds |-> next_binds.next,
                               discovery |-> next_discovery.result.value])]
          ELSE [stores |-> synced, result |-> next_discovery.result]

\* a watch loop that forgets the previous state when a reload fails
AfterReloadForgets(next_state, result) ==
  IF result.ok THEN result.value ELSE PreviousState_default

\* watch_config_file, the match on reload_config's result: the next_state
\* the loop goes on with
AfterReload(next_state, result) ==
  IF result.ok THEN result.value ELSE next_state

\* the kinds of file events, and the results the debouncer delivers
EventKinds == {"Modify", "Create", "Access"}
DebounceResults == {Ok(events) : events \in SUBSET EventKinds} \cup {Err("notify")}

\* a test that takes any event of a batch for a content change
HasContentChangeAnyEvent(events) == events # {}

\* events.iter().any(|e| matches!(e.kind, Modify(_) | Create(_)))
HasContentChange(events) == events \cap {"Modify", "Create"} # {}

(***************************************************************************)
(* strng.rs: Strng, a reference-counted immutable string (ArcStr).         *)
(* The heap is the sequence of string allocations, each with its content   *)
(* and its strong count; a Strng is a pointer to one of them.              *)
(***************************************************************************)
StrngContents == {"abc", "xyz"}

\* a constructor that hands out the allocation of an equal string already
\* on the heap
new_Interned(heap, s) ==
  IF \E p \in 1..Len(heap) : heap[p].content = s
  THEN LET p == CHOOSE q \in 1..Len(heap) : heap[q].content = s
       IN [heap |-> [heap EXCEPT ![p].strong = @ + 1], strng |-> p]
  ELSE [heap |-> Append(heap, [content |-> s, strong |-> 1]),
        strng |-> Len(heap) + 1]

\* strng::new(s) = Strng::from(s.as_ref()): a new allocation holding a copy
\* of s, with strong count 1
new(heap, s) ==
  [heap |-> Append(heap, [content |-> s, strong |-> 1]),
   strng |-> Len(heap) + 1]

\* a.clone(): the same allocation, its strong count one higher
clone(heap, a) ==
  [heap |-> [heap EXCEPT ![a].strong = @ + 1], strng |-> a]

\* ArcStr::strong_count(&a)
strong_count(heap, a) == Some(heap[a].strong)

\* a == b, a.to_string(): by content
to_str(heap, a) == heap[a].content

(***************************************************************************)
(* The state.                                                              *)
(***************************************************************************)
VARIABLES
  config,            \* AdsClient.config: handlers, initial_requests, on_demand
  known_resources,   \* State.known_resources: type_url -> set of names
  pending,           \* State.pending: ResourceKey -> the caller holding the receiver
  demand,            \* State.demand: the demands sent and not yet handled
  types_to_expect,   \* AdsClient.types_to_expect
  block_ready,       \* AdsClient.block_ready is Some: the readiness signal is held
  connection_id,     \* AdsClient.connection_id
  backoff,           \* run: the backoff carried to the next run_loop, in ms
  slept,             \* the time the last run_loop slept, 0 when it did not sleep
  pc,                \* "run": between connections; "stream": in run_internal's
                     \*   loop; "dropped": the client is gone
  initial_requests,  \* the initial requests the outbound stream has yet to yield
  discovery_req,     \* the request channel: requests pushed and not yet yielded
  response_stream,   \* what response_stream.message() returns next, when ready
  store,             \* the domain store of the handlers: type_url -> names held
  rx,                \* per caller, the Demanded it holds
  advertised,        \* history: names whose last mention by a handled response
                     \*   was in resources
  synthetic,         \* history: names demanded and not mentioned by a handled
                     \*   response since
  acked,             \* history: initially expected types a response of which
                     \*   handle_stream_event answered with Ack
  outcome,           \* history: how the last run_internal ended, None while
                     \*   the connection is up
  message_id,        \* process_streaming: the id captured from message_start
  model,             \* process_streaming: the model captured from message_start
  created,           \* process_streaming: the timestamp taken at stream start
  input_tokens,      \* process_streaming: the input tokens of message_start
  saw_token,         \* process_streaming: a content_block_delta was seen
  log,               \* the LLMResponse log of the request
  chunks,            \* the chunks the translator has emitted, in order
  frames,            \* history: the frames the translator has consumed
  req,               \* process_request: the universal request, once given
  anthropic_message, \* process_request: the MessagesRequest returned
  resp,              \* process_response: the provider response, once given
  openai,            \* process_response: the universal response returned
  config_source,     \* LocalClient.cfg: "File" or another ConfigSource
  stores,            \* LocalClient.stores: the binds and the discovery store
  next_state,        \* watch_config_file: the PreviousState held
  watch_pc,          \* LocalClient::run: "start", "watching" (the loop runs),
                     \*   "ended" (the loop is over), "loaded" (no watcher),
                     \*   "failed" (run returned an error)
  watch_rx,          \* the channel from the debouncer to the loop
  reload_log,        \* history: per reload_config call, prev and the result
  streak,            \* history: the iterations ended by a connection or
                     \*   transport error since the backoff was last reset, -1
                     \*   once another error raised the backoff in between
  terminations,      \* metrics: what the current iteration of run has added
                     \*   to the connection-termination counter, by label
  sending,           \* run_internal: the send a select arm's body awaits
                     \*   (its request and what it answers), None at select!
  heap,              \* the string allocations: content and strong count
  strngs             \* the Strng values alive: the allocation each points
                     \*   to and (history) the value it was cloned from, 0
                     \*   for one made by new

clientVars == <<config, known_resources, pending, demand, types_to_expect,
                block_ready, connection_id>>
loopVars == <<backoff, slept, pc, outcome, terminations, streak>>
connVars == <<initial_requests, discovery_req, response_stream>>
streamVars == <<message_id, model, created, input_tokens, saw_token, log,
                chunks, frames>>
translateVars == <<req, anthropic_message, resp, openai>>
localVars == <<config_source, stores, next_state, watch_pc, watch_rx, reload_log>>
strngVars == <<heap, strngs>>
nonXdsVars == <<streamVars, translateVars, localVars, strngVars>>
xdsVars == <<config, known_resources, pending, demand, types_to_expect, block_ready,
             connection_id, backoff, slept, pc, initial_requests, discovery_req,
             response_stream, store, rx, advertised, synthetic, acked, outcome,
             terminations, streak, sending>>
vars == <<config, known_resources, pending, demand, types_to_expect, block_ready,
          connection_id, backoff, slept, pc, initial_requests, discovery_req,
          response_stream, store, rx, advertised, synthetic, acked, outcome,
          message_id, model, created, input_tokens, saw_token, log, chunks,
          frames, req, anthropic_message, resp, openai, config_source,
          stores,
          next_state, watch_pc, watch_rx, reload_log, terminations, streak,
          sending,
          heap, strngs>>

\* The keys callers demand.
DemandKeys ==
  {ResourceKey(t, n) : t \in {ADDRESS_TYPE, AUTHORIZATION_TYPE}, n \in Names}

\* AdsClient::new, and run before its first iteration
ClientInit(cfg) ==
  /\ config = cfg
  /\ known_resources = [t \in TypeUrls |-> {}]
  /\ pending = [k \in {} |-> "c1"]
  /\ demand = <<>>
  /\ types_to_expect = InitialTypesToExpect(cfg)
  /\ block_ready = TRUE
  /\ connection_id = 0
  /\ backoff = INITIAL_BACKOFF
  /\ slept = 0
  /\ pc = "run"
  /\ initial_requests = <<>>
  /\ discovery_req = <<>>
  /\ response_stream = None
  /\ store = [t \in TypeUrls |-> {}]
  /\ rx = [c \in Callers |-> [state |-> "none"]]
  /\ advertised = [t \in TypeUrls |-> {}]
  /\ synthetic = [t \in TypeUrls |-> {}]
  /\ acked = {}
  /\ outcome = None
  /\ terminations = [r \in ConnectionTerminationReasons |-> 0]
  /\ streak = 0
  /\ sending = None

(***************************************************************************)
(* The reconnect loop.                                                     *)
(***************************************************************************)
\* a run that returns the error of run_internal to its caller
EndConnectionReturns(result) ==
  LET r == run_loop(backoff, result)
  IN /\ pc' = IF result.ok THEN "run" ELSE "returned"
     /\ backoff' = r.backoff
     /\ slept' = r.slept
     /\ outcome' = Some(result)
     /\ terminations' =
          Metrics_increment(IF pc = "run"
                            THEN [l \in ConnectionTerminationReasons |-> 0]
                            ELSE terminations, r.reason)
     /\ streak' = IF r.backoff = INITIAL_BACKOFF THEN 0
                  ELSE IF r.reason = "ConnectionError" /\ streak >= 0
                  THEN streak + 1
                  ELSE -1
     /\ initial_requests' = <<>>
     /\ discovery_req' = <<>>
     /\ response_stream' = None

\* run_internal returns `result`; run_loop handles it and returns to run
EndConnection(result) ==
  LET r == run_loop(backoff, result)
  IN /\ pc' = "run"
     /\ backoff' = r.backoff
     /\ slept' = r.slept
     /\ outcome' = Some(result)
     /\ terminations' =
          Metrics_increment(IF pc = "run"
                            THEN [l \in ConnectionTerminationReasons |-> 0]
                            ELSE terminations, r.reason)
     /\ streak' = IF r.backoff = INITIAL_BACKOFF THEN 0
                  ELSE IF r.reason = "ConnectionError" /\ streak >= 0
                  THEN streak + 1
                  ELSE -1
     /\ initial_requests' = <<>>
     /\ discovery_req' = <<>>
     /\ response_stream' = None

\* how connecting ends: the stream is established, connect() fails, or
\* delta_aggregated_resources returns a status
ConnectResults ==
  {Ok(<<>>), Err(Error_Transport),
   Err(Error_Connection([code |-> "Unavailable", message |-> <<>>]))}

\* run: one more iteration, up to the connection (or its failure)
Connect(maxc, result) ==
  /\ pc = "run"
  /\ connection_id < maxc
  /\ connection_id' = connection_id + 1
  /\ IF result.ok
     THEN /\ pc' = "stream"
          /\ initial_requests' = BuildInitialRequests(config, known_resources)
          /\ discovery_req' = <<>>
          /\ response_stream' = None
          /\ outcome' = None
          /\ terminations' = [l \in ConnectionTerminationReasons |-> 0]
          /\ UNCHANGED <<backoff, slept, streak>>
     ELSE EndConnection(result)
  /\ UNCHANGED <<nonXdsVars, sending, config, known_resources, pending, demand, types_to_expect,
                 block_ready, store, rx, advertised, synthetic, acked>>

(***************************************************************************)
(* The server and the transport.                                           *)
(***************************************************************************)
\* The server's next message, the end of the stream or a status becomes
\* ready on the inbound stream.  The server speaks once it has read what
\* the client sent.
ServerSend(item) ==
  /\ pc = "stream"
  /\ ~response_stream.some
  /\ initial_requests = <<>>
  /\ discovery_req = <<>>
  /\ response_stream' = Some(item)
  /\ UNCHANGED <<nonXdsVars, sending, clientVars, loopVars, initial_requests, discovery_req,
                 store, rx, advertised, synthetic, acked>>

\* the server answers the requests it has read while later requests of the
\* client are still waiting to be yielded
ServerSendEarly(item) ==
  /\ pc = "stream"
  /\ ~response_stream.some
  /\ Len(initial_requests) < Len(config.initial_requests)
  /\ response_stream' = Some(item)
  /\ UNCHANGED <<nonXdsVars, sending, clientVars, loopVars, initial_requests,
                 discovery_req, store, rx, advertised, synthetic, acked>>

\* an outbound stream that forwards what the request channel holds before
\* the initial requests still waiting
OutboundYieldChannelFirst ==
  /\ pc = "stream"
  /\ IF discovery_req # <<>>
     THEN /\ discovery_req' = Tail(discovery_req)
          /\ UNCHANGED initial_requests
     ELSE /\ initial_requests # <<>>
          /\ initial_requests' = Tail(initial_requests)
          /\ UNCHANGED discovery_req
  /\ UNCHANGED <<nonXdsVars, sending, clientVars, loopVars, response_stream,
                 store, rx, advertised, synthetic, acked>>

\* The outbound stream yields its next request: the initial ones first, then
\* what the request channel holds.
OutboundYield ==
  /\ pc = "stream"
  /\ IF initial_requests # <<>>
     THEN /\ initial_requests' = Tail(initial_requests)
          /\ UNCHANGED discovery_req
     ELSE /\ discovery_req # <<>>
          /\ discovery_req' = Tail(discovery_req)
          /\ UNCHANGED initial_requests
  /\ UNCHANGED <<nonXdsVars, sending, clientVars, loopVars, response_stream,
                 store, rx, advertised, synthetic, acked>>

(***************************************************************************)
(* run_internal's select loop.                                             *)
(***************************************************************************)
\* the request channel takes a send at once: it has room, or its receiver
\* is gone (the transport dropped the outbound stream) and the send fails
CanSend(open) == ~open \/ Len(discovery_req) < ReqChannelBound

Pushed(reqs, returned) == [i \in 1..Len(reqs) |-> [req |-> reqs[i], returned |-> returned]]

\* msg = response_stream.message() is Ok(Some(msg)): handle_stream_event
HandleStreamEvent(open) ==
  /\ pc = "stream"
  /\ response_stream.some
  /\ response_stream.value.ok
  /\ response_stream.value.value.some
  /\ CanSend(open)
  /\ \E h \in {handle_stream_event(
                    config,
                    [known_resources |-> known_resources, pending |-> pending,
                     notified |-> {}],
                    store, response_stream.value.value.value, open)} :
     LET msg == response_stream.value.value.value
         t == msg.type_url
         a == AfterStreamEvent(types_to_expect, block_ready, t, h.result)
         mentioned == {msg.resources[i].name : i \in 1..Len(msg.resources)}
                        \cup Range(msg.removed_resources)
     IN /\ known_resources' = h.state.known_resources
        /\ pending' = h.state.pending
        /\ store' = h.store
        /\ rx' = [c \in Callers |->
                    IF \E n \in h.state.notified : n.tx = c
                    THEN [state |-> "notified", key |-> rx[c].key,
                          seen |-> (CHOOSE n \in h.state.notified : n.tx = c).seen]
                    ELSE rx[c]]
        /\ types_to_expect' = a.types_to_expect
        /\ block_ready' = a.block_ready
        /\ advertised' =
             IF t \in config.handlers
             THEN [advertised EXCEPT ![t] =
                     (@ \ Range(msg.removed_resources))
                       \cup {msg.resources[i].name : i \in 1..Len(msg.resources)}]
             ELSE advertised
        /\ synthetic' =
             IF t \in config.handlers
             THEN [synthetic EXCEPT ![t] = @ \ mentioned]
             ELSE synthetic
        /\ acked' = IF h.result.ok /\ h.result.value = "Ack"
                    THEN acked \cup ({t} \cap InitialTypesToExpect(config))
                    ELSE acked
        /\ IF h.result.ok
           THEN /\ discovery_req' = discovery_req \o Pushed(h.sent, h.result.value)
                /\ response_stream' = None
                /\ UNCHANGED <<loopVars, initial_requests>>
           ELSE EndConnection(h.result)
  /\ UNCHANGED <<nonXdsVars, sending, config, demand, connection_id>>

\* msg is Ok(None): the stream ended without error, run_internal returns Ok
StreamEnd ==
  /\ pc = "stream"
  /\ response_stream = Some(Ok(None))
  /\ EndConnection(Ok(<<>>))
  /\ UNCHANGED <<nonXdsVars, sending, clientVars, store, rx, advertised, synthetic, acked>>

\* msg is Err(status): run_internal returns Error::GrpcStatus
StreamError ==
  /\ pc = "stream"
  /\ response_stream.some
  /\ ~response_stream.value.ok
  /\ EndConnection(Err(Error_GrpcStatus(response_stream.value.err)))
  /\ UNCHANGED <<nonXdsVars, sending, clientVars, store, rx, advertised, synthetic, acked>>

\* self.state.demand.recv() is Some(event): handle_demand_event
DemandEvent(open) ==
  /\ pc = "stream"
  /\ demand # <<>>
  /\ CanSend(open)
  /\ \E h \in {handle_demand_event(
                    [known_resources |-> known_resources, pending |-> pending,
                     notified |-> {}],
                    Head(demand).tx, Head(demand).key, open)} :
     LET ev == Head(demand)
     IN /\ demand' = Tail(demand)
        /\ known_resources' = h.state.known_resources
        /\ pending' = h.state.pending
        /\ rx' = [c \in Callers |->
                    IF c \in h.replaced /\ c # ev.tx
                    THEN [state |-> "closed", key |-> rx[c].key]
                    ELSE rx[c]]
        /\ synthetic' = [synthetic EXCEPT ![ev.key.type_url] = @ \cup {ev.key.name}]
        /\ IF h.result.ok
           THEN /\ discovery_req' = discovery_req \o Pushed(h.sent, "Demand")
                /\ UNCHANGED <<loopVars, initial_requests, response_stream>>
           ELSE EndConnection(h.result)
  /\ UNCHANGED <<nonXdsVars, sending, config, types_to_expect, block_ready, connection_id, store,
                 advertised, acked>>

(***************************************************************************)
(* run_internal's select loop with each arm's body split at its one await, *)
(* the send on the request channel, which waits while the channel is full. *)
(***************************************************************************)
\* a loop whose arms are polled while a body still awaits its send
SelectReadyAlways(s) == TRUE

\* the loop polls the arms of select! only when no arm's body is running
SelectReady(s) == ~s.some

\* handle_stream_event up to its send: the handler has run and the reply
\* is built
BeginStreamEvent ==
  /\ pc = "stream"
  /\ SelectReady(sending)
  /\ response_stream.some
  /\ response_stream.value.ok
  /\ response_stream.value.value.some
  /\ LET msg == response_stream.value.value.value
         t == msg.type_url
         h == handle_stream_event(
                config,
                [known_resources |-> known_resources, pending |-> pending,
                 notified |-> {}],
                store, msg, TRUE)
         mentioned == {msg.resources[i].name : i \in 1..Len(msg.resources)}
                        \cup Range(msg.removed_resources)
     IN /\ known_resources' = h.state.known_resources
        /\ pending' = h.state.pending
        /\ store' = h.store
        /\ rx' = [c \in Callers |->
                    IF \E n \in h.state.notified : n.tx = c
                    THEN [state |-> "notified", key |-> rx[c].key,
                          seen |-> (CHOOSE n \in h.state.notified : n.tx = c).seen]
                    ELSE rx[c]]
        /\ advertised' =
             IF t \in config.handlers
             THEN [advertised EXCEPT ![t] =
                     (@ \ Range(msg.removed_resources))
                       \cup {msg.resources[i].name : i \in 1..Len(msg.resources)}]
             ELSE advertised
        /\ synthetic' =
             IF t \in config.handlers
             THEN [synthetic EXCEPT ![t] = @ \ mentioned]
             ELSE synthetic
        /\ response_stream' = None
        /\ sending' = Some([arm |-> "response", type_url |-> t,
                            sent |-> h.sent, returned |-> h.result.value])
  /\ UNCHANGED <<nonXdsVars, config, demand, connection_id, types_to_expect, block_ready,
                 acked, loopVars, initial_requests, discovery_req>>

\* handle_demand_event up to its send: the notifier is stored and the name
\* added to known_resources
BeginDemandEvent ==
  /\ pc = "stream"
  /\ SelectReady(sending)
  /\ demand # <<>>
  /\ LET ev == Head(demand)
         h == handle_demand_event(
                [known_resources |-> known_resources, pending |-> pending,
                 notified |-> {}],
                ev.tx, ev.key, TRUE)
     IN /\ demand' = Tail(demand)
        /\ known_resources' = h.state.known_resources
        /\ pending' = h.state.pending
        /\ rx' = [c \in Callers |->
                    IF c \in h.replaced /\ c # ev.tx
                    THEN [state |-> "closed", key |-> rx[c].key]
                    ELSE rx[c]]
        /\ synthetic' = [synthetic EXCEPT ![ev.key.type_url] = @ \cup {ev.key.name}]
        /\ sending' = Some([arm |-> "demand", type_url |-> ev.key.type_url,
                            sent |-> h.sent, returned |-> "Demand"])
  /\ UNCHANGED <<nonXdsVars, config, types_to_expect, block_ready, connection_id, store,
                 advertised, acked, loopVars, connVars>>

\* the awaited send completes and the arm's body runs to its end: the
\* request is queued (and an acknowledged type no longer expected), or the
\* receiver is gone and run_internal returns the error
CompleteSend(open) ==
  /\ pc = "stream"
  /\ sending.some
  /\ CanSend(open)
  /\ sending' = None
  /\ LET b == sending.value
         a == AfterStreamEvent(types_to_expect, block_ready, b.type_url,
                               Ok(b.returned))
     IN IF open
        THEN /\ discovery_req' = discovery_req \o Pushed(b.sent, b.returned)
             /\ types_to_expect' =
                  IF b.arm = "response" THEN a.types_to_expect ELSE types_to_expect
             /\ block_ready' =
                  IF b.arm = "response" THEN a.block_ready ELSE block_ready
             /\ acked' = IF b.arm = "response" /\ b.returned = "Ack"
                         THEN acked \cup ({b.type_url} \cap InitialTypesToExpect(config))
                         ELSE acked
             /\ UNCHANGED <<loopVars, initial_requests, response_stream>>
        ELSE /\ EndConnection(Err(RequestFailure))
             /\ UNCHANGED <<types_to_expect, block_ready, acked>>
  /\ UNCHANGED <<nonXdsVars, config, known_resources, pending, demand, connection_id,
                 store, rx, advertised, synthetic>>

(***************************************************************************)
(* The callers of the Demander.                                            *)
(***************************************************************************)
\* AdsClient::demander: Some only for an on-demand client
HasDemander == config.on_demand

\* a Demander::demand whose channel hands the newest demand out first
Demander_demand_NewestFirst(channel, closed, tx, key) ==
  IF closed
  THEN [demand |-> channel, outcome |-> "panicked"]
  ELSE [demand |-> <<[tx |-> tx, key |-> key]>> \o channel, outcome |-> "open"]

\* Demander::demand's send on the demand channel and its expect: the
\* channel after the send, and whether the caller got a Demanded or panicked
Demander_demand(channel, closed, tx, key) ==
  IF closed
  THEN [demand |-> channel, outcome |-> "panicked"]
  ELSE [demand |-> Append(channel, [tx |-> tx, key |-> key]), outcome |-> "open"]

\* Demander::demand(type_url, name) by caller c: the send waits for room in
\* the channel unless the receiver is gone
Demand(c, key) ==
  /\ HasDemander
  /\ rx[c].state = "none"
  /\ pc = "dropped" \/ Len(demand) < DemandChannelBound
  /\ LET d == Demander_demand(demand, pc = "dropped", c, key)
     IN /\ demand' = d.demand
        /\ rx' = [rx EXCEPT ![c] = [state |-> d.outcome, key |-> key]]
  /\ UNCHANGED <<nonXdsVars, sending, config, known_resources, pending, types_to_expect, block_ready,
                 connection_id, loopVars, connVars, store, advertised, synthetic,
                 acked>>

\* a drop of the client that leaks the senders it holds
DropLeaksSenders ==
  /\ pc \in {"run", "stream"}
  /\ pc' = "dropped"
  /\ pending' = [k \in {} |-> "c1"]
  /\ demand' = <<>>
  /\ initial_requests' = <<>>
  /\ discovery_req' = <<>>
  /\ response_stream' = None
  /\ UNCHANGED <<nonXdsVars, sending, config, known_resources, types_to_expect, block_ready,
                 connection_id, backoff, slept, outcome, terminations, streak, store, rx, advertised,
                 synthetic, acked>>

\* The future of AdsClient::run is dropped (its task is cancelled) at an
\* await: the client and its State go, and with them the senders in pending,
\* the demand receiver with the demands it holds, and the connection.  What
\* known_resources held is read by nobody any more.
Drop ==
  /\ pc \in {"run", "stream"}
  /\ pc' = "dropped"
  /\ pending' = [k \in {} |-> "c1"]
  /\ demand' = <<>>
  /\ rx' = [c \in Callers |->
              IF /\ rx[c].state = "open"
                 /\ \/ \E k \in DOMAIN pending : pending[k] = c
                    \/ \E i \in 1..Len(demand) : demand[i].tx = c
              THEN [state |-> "closed", key |-> rx[c].key]
              ELSE rx[c]]
  /\ initial_requests' = <<>>
  /\ discovery_req' = <<>>
  /\ response_stream' = None
  /\ UNCHANGED <<nonXdsVars, sending, config, known_resources, types_to_expect, block_ready,
                 connection_id, backoff, slept, outcome, terminations, streak, store, advertised,
                 synthetic, acked>>

\* Demanded::recv returns: the notification was sent, or the sender dropped
Recv(c) ==
  /\ rx[c].state \in {"notified", "closed"}
  /\ rx' = [rx EXCEPT ![c] = [state |-> "none"]]
  /\ UNCHANGED <<nonXdsVars, sending, config, known_resources, pending, demand, types_to_expect,
                 block_ready, connection_id, loopVars, connVars, store,
                 advertised, synthetic, acked>>

(***************************************************************************)
(* The response stream of one LLM request.                                 *)
(***************************************************************************)
\* the values chrono::Utc::now().timestamp() as u32 takes at stream start
Timestamps == {1700000000, 1700000001}

\* process_streaming before the first frame, started at time ts
StreamStart(ts) ==
  /\ message_id = None
  /\ model = ""
  /\ created = ts
  /\ input_tokens = 0
  /\ saw_token = FALSE
  /\ log = EmptyLog
  /\ chunks = <<>>
  /\ frames = <<>>

\* Instant::now() while a frame is processed: frames are processed in turn,
\* each at a later instant
Instant_now == Len(frames) + 1

\* json_transform calls the closure with the next frame and forwards the
\* chunk it returns, if any
Frame(f) ==
  /\ Len(frames) < MaxEvents
  /\ LET r == process_streaming(
                [message_id |-> message_id, model |-> model, created |-> created,
                 input_tokens |-> input_tokens, saw_token |-> saw_token],
                log, f, Instant_now)
     IN /\ message_id' = r.st.message_id
        /\ model' = r.st.model
        /\ created' = r.st.created
        /\ input_tokens' = r.st.input_tokens
        /\ saw_token' = r.st.saw_token
        /\ log' = r.log
        /\ chunks' = IF r.out.some THEN Append(chunks, r.out.value) ELSE chunks
  /\ frames' = Append(frames, f)
  /\ UNCHANGED <<xdsVars, translateVars, localVars, strngVars>>

(***************************************************************************)
(* The translation of one request and of one whole response.               *)
(***************************************************************************)
\* no request and no response has been given yet
TranslateStart ==
  /\ req = None
  /\ anthropic_message = None
  /\ resp = None
  /\ openai = None

\* the model overrides a Provider is configured with
ModelOverrides == {None, Some("p")}

\* Provider::process_request(req) of a provider with the given override
ProcessRequest(override, r) ==
  /\ req = None
  /\ req' = Some(r)
  /\ anthropic_message' = Some(process_request(override, r))
  /\ UNCHANGED <<resp, openai, xdsVars, streamVars, localVars, strngVars>>

\* Provider::process_response of the bytes of response r, parsed
ProcessResponse(r, now) ==
  /\ resp = None
  /\ resp' = Some(r)
  /\ openai' = Some(translate_response(r, now))
  /\ UNCHANGED <<req, anthropic_message, xdsVars, streamVars, localVars,
                 strngVars>>

(***************************************************************************)
(* The local config file client.                                           *)
(***************************************************************************)
\* a LocalClient over empty stores, before run
LocalStart(kind) ==
  /\ config_source = kind
  /\ stores = [binds |-> {}, discovery |-> {}]
  /\ next_state = PreviousState_default
  /\ watch_pc = "start"
  /\ watch_rx = <<>>
  /\ reload_log = <<>>

\* LocalClient::run while the file holds `content`: for a file, the watcher
\* is set up, the config loaded and the watch loop spawned; otherwise the
\* config is loaded once
Run(content) ==
  /\ watch_pc = "start"
  /\ LET r == reload_config(content, stores, PreviousState_default)
     IN /\ stores' = r.stores
        /\ reload_log' = Append(reload_log, [prev |-> PreviousState_default,
                                             result |-> r.result])
        /\ next_state' = IF r.result.ok THEN r.result.value ELSE next_state
        /\ watch_pc' = IF ~r.result.ok THEN "failed"
                       ELSE IF config_source = "File" THEN "watching" ELSE "loaded"
  /\ UNCHANGED <<config_source, watch_rx, xdsVars, streamVars, translateVars,
                 strngVars>>

\* the debouncer's callback sends a result on the channel of capacity 1
\* while the watcher lives
WatcherSend(res) ==
  /\ watch_pc = "watching"
  /\ watch_rx = <<>>
  /\ watch_rx' = <<res>>
  /\ UNCHANGED <<config_source, stores, next_state, watch_pc, reload_log, xdsVars,
                 streamVars, translateVars, strngVars>>

\* one turn of `while let Some(Ok(events)) = rx.recv().await` while the file
\* holds `content`
WatchLoop(content) ==
  /\ watch_pc = "watching"
  /\ watch_rx # <<>>
  /\ watch_rx' = <<>>
  /\ LET res == Head(watch_rx)
     IN IF ~res.ok
        THEN /\ watch_pc' = "ended"
             /\ UNCHANGED <<stores, next_state, reload_log>>
        ELSE IF HasContentChange(res.value) /\ Len(reload_log) < MaxReloads
        THEN LET r == reload_config(content, stores, next_state)
             IN /\ stores' = r.stores
                /\ next_state' = AfterReload(next_state, r.result)
                /\ reload_log' = Append(reload_log, [prev |-> next_state,
                                                     result |-> r.result])
                /\ UNCHANGED watch_pc
        ELSE /\ ~HasContentChange(res.value)
             /\ UNCHANGED <<stores, next_state, watch_pc, reload_log>>
  /\ UNCHANGED <<config_source, xdsVars, streamVars, translateVars, strngVars>>

(***************************************************************************)
(* Strng values.                                                           *)
(***************************************************************************)
StrngStart ==
  /\ heap = <<>>
  /\ strngs = <<>>

\* let x = strng::new(s)
New(s) ==
  /\ Len(strngs) < MaxStrngs
  /\ LET r == new(heap, s)
     IN /\ heap' = r.heap
        /\ strngs' = Append(strngs, [ptr |-> r.strng, from |-> 0])
  /\ UNCHANGED <<xdsVars, streamVars, translateVars, localVars>>

\* let x = strngs[i].clone()
Clone(i) ==
  /\ Len(strngs) < MaxStrngs
  /\ i \in 1..Len(strngs)
  /\ LET r == clone(heap, strngs[i].ptr)
     IN /\ heap' = r.heap
        /\ strngs' = Append(strngs, [ptr |-> r.strng, from |-> i])
  /\ UNCHANGED <<xdsVars, streamVars, translateVars, localVars>>

(***************************************************************************)
(* Specifications.                                                         *)
(***************************************************************************)
\* The client StateManager::new builds, over connections that are
\* established: the server sends any responses and ends the stream, and the
\* send of a reply may fail.  How failures to connect and statuses drive the
\* backoff is the matter of SpecReconnect.
Init ==
  ClientInit(StateManagerConfig) /\ StreamStart(1700000000) /\ TranslateStart
    /\ LocalStart("File") /\ StrngStart

Next ==
  \/ Connect(MaxConn, Ok(<<>>))
  \/ \E r \in AnyResponses : ServerSend(Ok(Some(r)))
  \/ ServerSend(Ok(None))
  \/ OutboundYield
  \/ \E open \in BOOLEAN : HandleStreamEvent(open)
  \/ StreamEnd

Spec == Init /\ [][Next]_vars

\* An on-demand client and its callers.
InitDemand ==
  ClientInit(OnDemandConfig) /\ StreamStart(1700000000) /\ TranslateStart
    /\ LocalStart("File") /\ StrngStart

NextDemand ==
  \/ \E result \in ConnectResults : Connect(MaxConn, result)
  \/ \E r \in OnDemandResponses : ServerSend(Ok(Some(r)))
  \/ ServerSend(Ok(None))
  \/ OutboundYield
  \/ \E open \in BOOLEAN : HandleStreamEvent(open)
  \/ StreamEnd
  \/ \E status \in Statuses : ServerSend(Err(status))
  \/ StreamError
  \/ \E open \in BOOLEAN : DemandEvent(open)
  \/ \E key \in DemandKeys : Demand("c1", key)
  \/ Recv("c1")
  \/ Drop

SpecDemand == InitDemand /\ [][NextDemand]_vars

\* The demand channel between several callers and an on-demand client
\* whose server stays silent.  select! polls the demand receiver whenever
\* the loop comes round, and the transport keeps reading the requests the
\* client pushes.
QueueKeys == {ResourceKey(ADDRESS_TYPE, n) : n \in Names}

NextQueue ==
  \/ Connect(MaxConn, Ok(<<>>))
  \/ ServerSend(Ok(None))
  \/ StreamEnd
  \/ OutboundYield
  \/ \E open \in BOOLEAN : DemandEvent(open)
  \/ \E c \in Callers, key \in QueueKeys : Demand(c, key)
  \/ \E c \in Callers : Recv(c)

SpecQueue ==
  /\ InitDemand
  /\ [][NextQueue]_vars
  /\ WF_vars(DemandEvent(TRUE))
  /\ WF_vars(OutboundYield)

\* The select loop of an on-demand client with the sends of its handlers
\* as steps of their own, on one connection.
NextSelect ==
  \/ Connect(1, Ok(<<>>))
  \/ \E r \in Responses({ADDRESS_TYPE}, {"n1"}) : ServerSend(Ok(Some(r)))
  \/ ServerSend(Ok(None))
  \/ OutboundYield
  \/ BeginStreamEvent
  \/ BeginDemandEvent
  \/ \E open \in BOOLEAN : CompleteSend(open)
  \/ SelectReady(sending) /\ StreamEnd
  \/ \E key \in QueueKeys : Demand("c1", key)
  \/ Recv("c1")

SpecSelect == InitDemand /\ [][NextSelect]_vars

\* The outbound stream of an on-demand client with two watched types, whose
\* server may answer before it has read every initial request; its responses
\* list resources and remove none, removals playing no part in the order of
\* the outbound requests.
InitOutbound ==
  ClientInit(with_watched_handler(OnDemandConfig, ADP_TYPE, FALSE))
    /\ StreamStart(1700000000) /\ TranslateStart
    /\ LocalStart("File") /\ StrngStart

NextOutbound ==
  \/ Connect(MaxConn, Ok(<<>>))
  \/ \E r \in {m \in Responses({ADDRESS_TYPE}, {"n1"}) : m.removed_resources = <<>>} :
       ServerSendEarly(Ok(Some(r)))
  \/ ServerSend(Ok(None))
  \/ StreamEnd
  \/ OutboundYield
  \/ \E open \in BOOLEAN : HandleStreamEvent(open)
  \/ \E open \in BOOLEAN : DemandEvent(open)
  \/ Demand("c1", ResourceKey(ADDRESS_TYPE, "a"))
  \/ Recv("c1")

SpecOutbound == InitOutbound /\ [][NextOutbound]_vars

\* Clients built in either mode from handlers of either kind, with callers
\* and a silent server.
InitBuild ==
  /\ \E d, a, b \in BOOLEAN : ClientInit(WatchedConfig(d, a, b))
  /\ StreamStart(1700000000)
  /\ TranslateStart
  /\ LocalStart("File")
  /\ StrngStart

SpecBuild == InitBuild /\ [][NextQueue]_vars

\* The translation of one streamed response, fed any frames.
InitStream ==
  /\ ClientInit(StateManagerConfig)
  /\ \E ts \in Timestamps : StreamStart(ts)
  /\ TranslateStart
  /\ LocalStart("File")
  /\ StrngStart

NextStream == \E f \in Frames : Frame(f)

SpecStream == InitStream /\ [][NextStream]_vars

\* One request translated for the provider.
NextRequest ==
  \E override \in ModelOverrides, r \in Requests : ProcessRequest(override, r)

SpecRequest == Init /\ [][NextRequest]_vars

\* One whole provider response translated for the caller.
NextResponse ==
  \E r \in ProviderResponses, now \in Timestamps : ProcessResponse(r, now)

SpecResponse == Init /\ [][NextResponse]_vars

\* The local client: a config file that changes and is reloaded, or a
\* config that is loaded once.
InitLocal ==
  /\ ClientInit(StateManagerConfig)
  /\ StreamStart(1700000000)
  /\ TranslateStart
  /\ \E kind \in {"File", "Static"} : LocalStart(kind)
  /\ StrngStart

NextLocal ==
  \/ \E content \in FileContents : Run(content)
  \/ \E res \in DebounceResults : WatcherSend(res)
  \/ \E content \in FileContents : WatchLoop(content)

SpecLocal == InitLocal /\ [][NextLocal]_vars

\* Strng values made by new and by clone.
NextStrng ==
  \/ \E s \in StrngContents : New(s)
  \/ \E i \in 1..MaxStrngs : Clone(i)

SpecStrng == Init /\ [][NextStrng]_vars

\* The reconnect loop alone, over many connections.
NextReconnect ==
  \/ \E result \in ConnectResults : Connect(MaxReconnect, result)
  \/ ServerSend(Ok(None))
  \/ \E status \in Statuses : ServerSend(Err(status))
  \/ OutboundYield
  \/ \E r \in UnhandledResponses : ServerSend(Ok(Some(r)))
  \/ \E open \in BOOLEAN : HandleStreamEvent(open)
  \/ StreamEnd
  \/ StreamError

SpecReconnect == Init /\ [][NextReconnect]_vars

\* The reconnect loop with its scheduling: run is sequential code, so once
\* run_loop has returned (its sleep is finite) the next iteration begins.
SpecReconnectLive ==
  /\ SpecReconnect
  /\ WF_vars(\E result \in ConnectResults : Connect(MaxReconnect, result))

(***************************************************************************)
(* Properties.  A step that handles a response is recognised by what it    *)
(* reads and writes: the message ready on the inbound stream is taken and  *)
(* the demand queue is left alone.                                         *)
(***************************************************************************)
InFlight == response_stream.value.value.value

HandlesResponse ==
  /\ pc = "stream"
  /\ response_stream.some
  /\ response_stream.value.ok
  /\ response_stream.value.value.some
  /\ pc' # "dropped"
  /\ response_stream' = None
  /\ demand' = demand

ListedNames(msg) == {msg.resources[i].name : i \in 1..Len(msg.resources)}

AcceptedNames(msg) ==
  {msg.resources[i].name :
     i \in {j \in 1..Len(msg.resources) : msg.resources[j].resource = Some("valid")}}

RemovedNames(msg) == Range(msg.removed_resources)

MentionedNames(msg) == ListedNames(msg) \cup RemovedNames(msg)

\* the caller's receiver gets its notification in this step
Woken(c) == rx[c].state = "open" /\ rx'[c].state = "notified"

\* the request channel gained exactly one entry, at its end
PushedOne ==
  /\ Len(discovery_req') = Len(discovery_req) + 1
  /\ SubSeq(discovery_req', 1, Len(discovery_req)) = discovery_req

LastPushed == discovery_req'[Len(discovery_req')]

C2_CacheConsistency ==
  \A t \in config.handlers : known_resources[t] = advertised[t]

\* responses have been processed that left one handled type with both names
\* known and the other with one
C2_Witness ==
  /\ known_resources[ADDRESS_TYPE] = {"a", "b"}
  /\ known_resources[ADP_TYPE] = {"b"}

\* C3 as stated: with responses and demand events interleaved, a name is in
\* known_resources[T] exactly when the server's most recent mention of it
\* for T was an advertisement.
C3_Original ==
  \A t \in config.handlers : \A n \in Names :
     n \in known_resources[t] <=> n \in advertised[t]

\* C3: with responses and demand events interleaved, for a type T with a
\* registered handler a name is in known_resources[T] exactly when the
\* server's most recent mention of it for T was an advertisement, or the
\* name has been demanded and the server has not mentioned it since.
C3_KnownResources ==
  \A t \in config.handlers : \A n \in Names :
     n \in known_resources[t] <=> (n \in advertised[t] \/ n \in synthetic[t])

\* one name is known because the server advertised it, another only because
\* it was demanded
C3_Witness ==
  \E t \in config.handlers :
     /\ advertised[t] # {}
     /\ synthetic[t] # {}
     /\ advertised[t] \cap synthetic[t] = {}

\* an entry of the request channel that answers msg
ReplyTo(msg, e) ==
  /\ e.returned \in {"Ack", "Nack"}
  /\ e.req.type_url = msg.type_url
  /\ e.req.response_nonce = msg.nonce

\* the request channel gained an ACK or a NACK
NewReply ==
  /\ Len(discovery_req') > Len(discovery_req)
  /\ LastPushed.returned \in {"Ack", "Nack"}

\* C4 as stated: every response handle_stream_event processes results in
\* exactly one request pushed on the request channel, carrying the
\* response's type_url and its nonce as response_nonce; no ACK or NACK is
\* pushed that does not answer a received response.
C4_Original ==
  [][/\ HandlesResponse => (PushedOne /\ ReplyTo(InFlight, LastPushed))
     /\ NewReply => (HandlesResponse /\ ReplyTo(InFlight, LastPushed))]_vars

\* C4: every response handle_stream_event processes results in exactly one
\* request pushed on the request channel, carrying the response's type_url
\* and its nonce as response_nonce, unless the channel's receiver is gone:
\* then nothing is pushed and the connection ends with RequestFailure.  No
\* ACK or NACK is pushed that does not answer a received response.
C4_AckNackExclusivity ==
  [][/\ HandlesResponse =>
          \/ /\ pc' = "stream"
             /\ PushedOne
             /\ ReplyTo(InFlight, LastPushed)
          \/ /\ pc' = "run"
             /\ discovery_req' = <<>>
             /\ outcome' = Some(Err(RequestFailure))
     /\ NewReply => (HandlesResponse /\ ReplyTo(InFlight, LastPushed))]_vars

\* the request channel holds the ACK of a response with nonce n2
C4_Witness ==
  \E i \in 1..Len(discovery_req) :
     /\ discovery_req[i].returned = "Ack"
     /\ discovery_req[i].req.response_nonce = "n2"

\* processing msg produces a RejectedConfig: its type has a handler and one
\* of its resources has no payload, does not decode or is not accepted
ProducesReject(msg) ==
  /\ msg.type_url \in config.handlers
  /\ \E i \in 1..Len(msg.resources) : msg.resources[i].resource # Some("valid")

\* what handle_stream_event returned in this step
ReturnedSignal == IF pc' = "stream" THEN LastPushed.returned ELSE "Err"

\* C5 as stated: the reply to a response carries error_detail if and only
\* if processing the response produced a RejectedConfig; handle_stream_event
\* returns Nack exactly in that case and Ack otherwise.
C5_Original ==
  [][HandlesResponse =>
       /\ pc' = "stream" =>
            (LastPushed.req.error_detail.some <=> ProducesReject(InFlight))
       /\ ReturnedSignal = (IF ProducesReject(InFlight) THEN "Nack" ELSE "Ack")]_vars

\* C5: the reply to a response carries error_detail if and only if
\* processing the response produced a RejectedConfig; when the reply is
\* sent handle_stream_event returns Nack exactly in that case and Ack
\* otherwise, and when the request channel's receiver is gone it returns
\* RequestFailure, whatever the response held.
C5_NackIffRejected ==
  [][HandlesResponse =>
       /\ pc' = "stream" =>
            /\ PushedOne
            /\ LastPushed.req.error_detail.some <=> ProducesReject(InFlight)
            /\ LastPushed.returned =
                 (IF ProducesReject(InFlight) THEN "Nack" ELSE "Ack")
       /\ pc' = "run" => outcome' = Some(Err(RequestFailure))]_vars

\* the request channel holds a NACK with its error_detail
C5_Witness ==
  \E i \in 1..Len(discovery_req) :
     /\ discovery_req[i].returned = "Nack"
     /\ discovery_req[i].req.error_detail.some

\* the first request for type t the outbound stream is going to yield
FirstFor(reqs, t) ==
  reqs[CHOOSE i \in 1..Len(reqs) :
         /\ reqs[i].type_url = t
         /\ \A j \in 1..(i - 1) : reqs[j].type_url # t]

\* every entry of s is an entry of t, at the same place
IsPrefix(s, t) == Len(s) <= Len(t) /\ SubSeq(t, 1, Len(s)) = s

\* C6: on every connection attempt, for every watched type T, the first
\* outbound request for T carries initial_resource_versions whose keys are
\* known_resources[T] as it stands when the attempt starts and whose values
\* are all the empty string; the outbound stream yields these requests
\* before anything pushed on the request channel.
C6_ReconnectIdempotence ==
  [][/\ (pc = "run" /\ pc' = "stream") =>
          \A k \in 1..Len(config.initial_requests) :
             LET t == config.initial_requests[k].type_url
             IN /\ \E i \in 1..Len(initial_requests') :
                      initial_requests'[i].type_url = t
                /\ LET irv == FirstFor(initial_requests', t).initial_resource_versions
                   IN /\ DOMAIN irv = known_resources[t]
                      /\ \A n \in DOMAIN irv : irv[n] = ""
     /\ (pc = "stream" /\ pc' = "stream" /\ initial_requests # <<>>) =>
          IsPrefix(discovery_req, discovery_req')]_vars

\* a reconnect whose first request tells the server both names are known
C6_Witness ==
  /\ pc = "stream"
  /\ connection_id = 2
  /\ Len(initial_requests) = 2
  /\ DOMAIN initial_requests[1].initial_resource_versions = {"a", "b"}

\* C7 as stated: the readiness signal is dropped when, and only when, every
\* type of the initial types_to_expect has produced at least one ACK,
\* counted over all connections.
C7_ReadyIffAllAcked ==
  pc = "stream" =>
     ((~block_ready) <=> (InitialTypesToExpect(config) \subseteq acked))

\* C8 as stated: after a response has been processed, no key
\* (type_url, name) whose name the response lists in resources or
\* removed_resources remains in pending.
C8_Original ==
  [][HandlesResponse =>
       \A n \in MentionedNames(InFlight) :
          ResourceKey(InFlight.type_url, n) \notin DOMAIN pending']_vars

\* C8: after a response of a type with a registered handler has been
\* processed, no key (type_url, name) whose name the response lists in
\* resources or removed_resources remains in pending: every such waiter
\* has been notified and its entry removed.
C8_NoPendingAfterResponse ==
  [][(HandlesResponse /\ InFlight.type_url \in config.handlers) =>
       \A n \in MentionedNames(InFlight) :
          LET k == ResourceKey(InFlight.type_url, n)
          IN /\ k \notin DOMAIN pending'
             /\ k \in DOMAIN pending => rx'[pending[k]].state = "notified"]_vars

\* a waiter has been woken by a response that left its resource out of the
\* store, and its entry is gone
C8_Witness ==
  \E c \in Callers :
     /\ rx[c].state = "notified"
     /\ ~rx[c].seen
     /\ rx[c].key \notin DOMAIN pending

\* run_internal returns in this step, or connecting fails
Ended == pc' = "run" /\ outcome'.some /\ (pc = "stream" \/ connection_id' # connection_id)

\* the messages of an Unavailable status that make it a normal reconnect
TransientMessages ==
  {<<"error:", "transport", "is", "closing">>,
   <<"received", "prior", "goaway", "from", "server">>}

\* the backoff the next iteration starts with, by how run_internal ended
CarriedBackoff(prev, result) ==
  IF result.ok THEN INITIAL_BACKOFF
  ELSE CASE result.err.kind \in {"Connection", "Transport"} ->
              IF 2 * prev < MAX_BACKOFF THEN 2 * prev ELSE MAX_BACKOFF
         [] result.err.kind = "GrpcStatus" ->
              IF \/ result.err.status.code \in {"Cancelled", "DeadlineExceeded"}
                 \/ /\ result.err.status.code = "Unavailable"
                    /\ result.err.status.message \in TransientMessages
              THEN INITIAL_BACKOFF
              ELSE IF 2 * prev < MAX_BACKOFF THEN 2 * prev ELSE MAX_BACKOFF
         [] OTHER -> INITIAL_BACKOFF

\* C9: the backoff carried to the next iteration is a function of how
\* run_internal ended: min(2 * previous, 15 s) for a connection or
\* transport error and for any gRPC status that is not a normal reconnect;
\* 10 ms for Cancelled, DeadlineExceeded, or Unavailable with a message
\* containing "transport is closing" or "received prior goaway", for any
\* other error, and for a clean end of the stream.
C9_BackoffByOutcome ==
  [][Ended => backoff' = CarriedBackoff(backoff, outcome'.value)]_vars

\* an iteration has ended with the backoff at its cap
C9_Witness == pc = "run" /\ outcome.some /\ backoff = MAX_BACKOFF

\* the server ended the stream without error and run_internal returns Ok
CleanEnd == pc = "stream" /\ response_stream = Some(Ok(None)) /\ pc' = "run"

\* C10 as stated: after a clean end of the stream the client waits the
\* minimum backoff of 10 ms before it opens the next connection.
C10_Original == [][CleanEnd => slept' = INITIAL_BACKOFF]_vars

\* C10: after a clean end of the stream the client does not wait: run_loop
\* returns without sleeping, the backoff it carries reset to the minimum of
\* 10 ms, and run opens the next connection at once.
C10_CleanEndNoWait ==
  [][CleanEnd => (slept' = 0 /\ backoff' = INITIAL_BACKOFF)]_vars

\* run_internal has returned Ok and run_loop has returned without sleeping
C10_Witness ==
  /\ pc = "run"
  /\ outcome = Some(Ok(<<>>))
  /\ slept = 0
  /\ backoff = INITIAL_BACKOFF

\* C11: run never returns and never propagates an error: whatever way a
\* connection ends (and before the first one), the client eventually starts
\* another connection attempt, with connection_id incremented by one.
C11_ReconnectsForever ==
  \A n \in 0..(MaxReconnect - 1) :
     ((connection_id = 0 \/ outcome.some) /\ connection_id = n)
        ~> (connection_id = n + 1)

\* a stream is up on the third attempt, the attempts before it having
\* ended in errors that raised the backoff
C11_Witness ==
  /\ pc = "stream"
  /\ connection_id = 3
  /\ backoff = 4 * INITIAL_BACKOFF

\* C12: a response that yields rejected configs does not end the stream:
\* the NACK is pushed and run_internal stays in its loop on the same
\* connection, unless the send of the NACK itself fails.  run_internal ends
\* only by an error of connecting (connection or transport), a status on
\* the inbound stream, a failed send on the request channel, or the end of
\* the inbound stream.
C12_NackKeepsStream ==
  [][/\ (HandlesResponse /\ ProducesReject(InFlight)) =>
          \/ /\ pc' = "stream"
             /\ connection_id' = connection_id
             /\ outcome' = None
             /\ PushedOne
             /\ LastPushed.returned = "Nack"
          \/ outcome' = Some(Err(RequestFailure))
     /\ Ended =>
          \/ /\ pc = "run"
             /\ ~outcome'.value.ok
             /\ outcome'.value.err.kind \in {"Connection", "Transport"}
          \/ /\ pc = "stream"
             /\ response_stream = Some(Ok(None))
             /\ outcome'.value = Ok(<<>>)
          \/ /\ pc = "stream"
             /\ response_stream.some
             /\ ~response_stream.value.ok
             /\ outcome'.value = Err(Error_GrpcStatus(response_stream.value.err))
          \/ /\ pc = "stream"
             /\ outcome'.value = Err(RequestFailure)
             /\ HandlesResponse \/ demand' # demand]_vars

\* a NACK has been pushed and the stream of the first connection is still
\* up, a waiter still registered on it
C12_Witness ==
  /\ pc = "stream"
  /\ connection_id = 1
  /\ outcome = None
  /\ pending # <<>>
  /\ \E i \in 1..Len(discovery_req) : discovery_req[i].returned = "Nack"

\* a resource decode_proto fails on: no payload, or bytes that are no T
Undecodable(r) == ~r.resource.some \/ r.resource.value = "garbage"

UndecodableNames(msg) ==
  {msg.resources[i].name :
     i \in {j \in 1..Len(msg.resources) : Undecodable(msg.resources[j])}}

\* the decoded resources of msg in their order, then its removals
DecodedThenRemoved(msg) ==
  LET good == SelectSeq(msg.resources, LAMBDA r : ~Undecodable(r))
  IN [i \in 1..Len(good) |->
        [kind |-> "Update", name |-> good[i].name, resource |-> good[i].resource.value]]
     \o [i \in 1..Len(msg.removed_resources) |->
           [kind |-> "Remove", name |-> msg.removed_resources[i]]]

\* C13: when a response of a handled type contains a resource that fails to
\* decode (or lacks the embedded resource), the handler is still invoked
\* with every successfully decoded resource and every removal of that
\* response, so the store is what the handler makes of exactly those, and
\* the reply is a NACK whose error_detail names each failing resource.
C13_BadDoesNotBlockGood ==
  [][(/\ HandlesResponse
      /\ InFlight.type_url \in config.handlers
      /\ UndecodableNames(InFlight) # {}) =>
       LET t == InFlight.type_url
       IN /\ store'[t] = Handler_handle(DecodedThenRemoved(InFlight), store[t]).names
          /\ pc' = "stream" =>
               /\ PushedOne
               /\ LastPushed.returned = "Nack"
               /\ LastPushed.req.error_detail.some
               /\ UndecodableNames(InFlight)
                    \subseteq Range(LastPushed.req.error_detail.value)]_vars

\* the NACK of a response names a as failing while b, a resource it could
\* carry as well, is stored
C13_Witness ==
  \E t \in config.handlers :
     /\ store[t] = {"b"}
     /\ advertised[t] = {"a", "b"}
     /\ \E i \in 1..Len(discovery_req) :
          /\ discovery_req[i].returned = "Nack"
          /\ discovery_req[i].req.type_url = t
          /\ "a" \in Range(discovery_req[i].req.error_detail.value)
          /\ "b" \notin Range(discovery_req[i].req.error_detail.value)

\* this step is handle_demand_event taking the oldest queued demand
HandlesDemand ==
  pc = "stream" /\ pc' # "dropped" /\ demand # <<>> /\ demand' = Tail(demand)

\* what handling the demand `ev` does to pending and known_resources
DemandRecorded(ev) ==
  /\ ev.key \in DOMAIN pending'
  /\ pending'[ev.key] = ev.tx
  /\ ev.key.name \in known_resources'[ev.key.type_url]

\* the request pushed in this step subscribes to the key of `ev`, only
SubscribesTo(ev) ==
  /\ PushedOne
  /\ LastPushed.req = [DefaultRequest EXCEPT
                         !.type_url = ev.key.type_url,
                         !.resource_names_subscribe = <<ev.key.name>>]

\* a name leaves known_resources only when a response of its type removes it
LeavesOnlyByRemoval ==
  \A t \in TypeUrls : \A n \in known_resources[t] \ known_resources'[t] :
     /\ HandlesResponse
     /\ InFlight.type_url = t
     /\ n \in Range(InFlight.removed_resources)

\* a connection's initial request of each type carries every known name
ReconnectCarriesKnown ==
  (pc = "run" /\ pc' = "stream") =>
     \A i \in 1..Len(initial_requests') :
        DOMAIN initial_requests'[i].initial_resource_versions
          = known_resources[initial_requests'[i].type_url]

\* C14 as stated: handling a demand for key (T, x) inserts the key's
\* notifier into pending, adds x to known_resources[T] and sends exactly one
\* request of type T whose resource_names_subscribe is [x], also when x is
\* already known; the name stays in T's initial_resource_versions on every
\* later reconnect until the server removes it.
C14_Original ==
  [][/\ HandlesDemand => (DemandRecorded(Head(demand)) /\ SubscribesTo(Head(demand)))
     /\ LeavesOnlyByRemoval
     /\ ReconnectCarriesKnown]_vars

\* C14: handling a demand for key (T, x) inserts the key's notifier into
\* pending, adds x to known_resources[T] and, also when x is already known,
\* sends exactly one request of type T whose resource_names_subscribe is
\* [x], unless the request channel's receiver is gone: then nothing is sent
\* and the connection ends with RequestFailure.  In both cases x stays in
\* known_resources[T] until a response of type T removes it, and every
\* connection's initial request of type T lists all of known_resources[T].
C14_DemandSubscribes ==
  [][/\ HandlesDemand =>
          /\ DemandRecorded(Head(demand))
          /\ \/ pc' = "stream" /\ SubscribesTo(Head(demand))
             \/ /\ pc' = "run"
                /\ discovery_req' = <<>>
                /\ outcome' = Some(Err(RequestFailure))
     /\ LeavesOnlyByRemoval
     /\ ReconnectCarriesKnown]_vars

\* on the second connection, whose initial request carried a, the subscribe
\* request of a demand for a is on the request channel
C14_Witness ==
  /\ pc = "stream"
  /\ connection_id = 2
  /\ ResourceKey(ADDRESS_TYPE, "a") \in DOMAIN pending
  /\ "a" \in synthetic[ADDRESS_TYPE]
  /\ \E i \in 1..Len(discovery_req) :
       /\ discovery_req[i].returned = "Demand"
       /\ discovery_req[i].req.type_url = ADDRESS_TYPE
       /\ discovery_req[i].req.resource_names_subscribe = <<"a">>

\* this step handles a response whose type has no registered handler
HandlesUnknownType == HandlesResponse /\ InFlight.type_url \notin config.handlers

\* the step called no handler and left the client's resource state alone
NothingApplied ==
  /\ store' = store
  /\ known_resources' = known_resources
  /\ pending' = pending

\* the step pushed the plain ACK of the response in flight
AcksInFlight ==
  /\ PushedOne
  /\ LastPushed.returned = "Ack"
  /\ LastPushed.req = [DefaultRequest EXCEPT
                         !.type_url = InFlight.type_url,
                         !.response_nonce = InFlight.nonce]

\* C15 as stated: a response whose type_url has no registered handler (the
\* declared but unregistered Authorization type included) is answered with
\* an ACK carrying its nonce, invokes no handler, and leaves known_resources
\* and pending unchanged.
C15_Original ==
  [][HandlesUnknownType => (AcksInFlight /\ NothingApplied)]_vars

\* C15: a response whose type_url has no registered handler (the declared
\* but unregistered Authorization type included) invokes no handler, leaves
\* known_resources and pending unchanged, and is answered with an ACK
\* carrying its nonce, unless the request channel's receiver is gone: then
\* nothing is sent and the connection ends with RequestFailure.
C15_UnknownTypeAcked ==
  [][HandlesUnknownType =>
       /\ NothingApplied
       /\ \/ pc' = "stream" /\ AcksInFlight
          \/ /\ pc' = "run"
             /\ discovery_req' = <<>>
             /\ outcome' = Some(Err(RequestFailure))]_vars

\* the ACK of an Authorization response is on the request channel while a
\* demanded Authorization name is still pending and known
C15_Witness ==
  /\ pc = "stream"
  /\ \E n \in Names :
       /\ ResourceKey(AUTHORIZATION_TYPE, n) \in DOMAIN pending
       /\ n \in known_resources[AUTHORIZATION_TYPE]
  /\ \E i \in 1..Len(discovery_req) :
       /\ discovery_req[i].returned = "Ack"
       /\ discovery_req[i].req.type_url = AUTHORIZATION_TYPE
       /\ discovery_req[i].req.response_nonce \in Nonces

\* this step is the drop of the client
Dropped == pc # "dropped" /\ pc' = "dropped"

\* C16: when the client task is cancelled or dropped, every notifier still in
\* pending is dropped, so each outstanding Demanded::recv observes a closed
\* channel and returns: from then on no caller holds a Demanded that is still
\* waiting.
C16_DropReleasesWaiters ==
  [][/\ Dropped =>
          /\ DOMAIN pending' = {}
          /\ \A c \in Callers :
                rx[c].state = "open" =>
                   (rx'[c].state = "closed" /\ rx'[c].key = rx[c].key)
     /\ pc' = "dropped" => \A c \in Callers : rx'[c].state # "open"]_vars

\* the client is gone and the caller's recv is about to return on a closed
\* channel, for a key that was demanded
C16_Witness ==
  /\ pc = "dropped"
  /\ DOMAIN pending = {}
  /\ \E c \in Callers : rx[c].state = "closed" /\ rx[c].key \in DemandKeys

\* C18 as stated: after the client has been dropped, Demander::demand
\* reports the failure to its caller as an error outcome; it does not panic
\* the calling task.
C18_DemandAfterDropFails ==
  [][\A c \in Callers :
       (pc = "dropped" /\ rx[c].state = "none" /\ rx'[c].state # "none") =>
          rx'[c].state = "failed"]_vars

\* the demand channel holds a demand of caller c
InQueue(c) == \E i \in 1..Len(demand) : demand[i].tx = c

\* this step is caller c's demand() returning its Demanded
Sends(c) == rx[c].state = "none" /\ rx'[c].state = "open"

\* the demand of every waiting caller is in the channel or in pending
NoDemandLost ==
  \A c \in Callers :
     rx[c].state = "open" =>
        \/ \E i \in 1..Len(demand) : demand[i] = [tx |-> c, key |-> rx[c].key]
        \/ rx[c].key \in DOMAIN pending /\ pending[rx[c].key] = c

\* C17: demands from concurrent callers reach the client one at a time, in
\* send order, through a queue that never holds more than its capacity of
\* undelivered demands; a caller's demand() never fails while the client
\* lives and no demand is lost; and every enqueued demand is eventually
\* handled while a connection's event loop is running.
C17_DemandQueue ==
  /\ [](/\ Len(demand) <= DemandChannelBound
        /\ \A c \in Callers : rx[c].state # "panicked"
        /\ NoDemandLost)
  /\ [][/\ \A c \in Callers :
             Sends(c) => demand' = Append(demand, [tx |-> c, key |-> rx'[c].key])
        /\ demand' # demand =>
             \/ \E c \in Callers : Sends(c)
             \/ HandlesDemand /\ DemandRecorded(Head(demand))]_vars
  /\ \A c \in Callers :
        (InQueue(c) /\ pc = "stream") ~> (~InQueue(c) \/ pc # "stream")

\* the channel is full with the demands of two callers while the demand of
\* a third, handled before, is pending
C17_Witness ==
  /\ pc = "stream"
  /\ Len(demand) = DemandChannelBound
  /\ demand[1].tx # demand[2].tx
  /\ \E k \in DOMAIN pending : pending[k] \notin {demand[1].tx, demand[2].tx}

\* the frames consumed that parsed as content_block_delta events, in order
ConsumedDeltas ==
  SelectSeq(frames, LAMBDA f : f.ok /\ f.value.type = "ContentBlockDelta")

\* the concatenation of the texts of a sequence of text sequences
RECURSIVE Concat(_)
Concat(texts) == IF texts = <<>> THEN <<>> ELSE Head(texts) \o Concat(Tail(texts))

\* the chunks emitted that carry a choice
ContentChunks == SelectSeq(chunks, LAMBDA c : c.choices # <<>>)

\* the chunk this step emitted, when it emitted exactly one
EmittedOne == Len(chunks') = Len(chunks) + 1 /\ SubSeq(chunks', 1, Len(chunks)) = chunks

LastChunk == chunks'[Len(chunks')]

\* the frame this step consumed
Consumed == frames'[Len(frames')]

\* C19: each parsed ContentBlockDelta yields exactly one chunk whose single
\* choice has index 0, delta.content equal to the event's text, no
\* finish_reason and no usage; each MessageDelta yields exactly one chunk
\* with empty choices and a usage object; every other event and every
\* unparsable frame yields no chunk.  Hence the concatenation of
\* delta.content over the emitted chunks equals the concatenation of text
\* over the consumed content_block_delta events.
C19_ChunkPerEvent ==
  /\ [][frames' # frames =>
          IF Consumed.ok /\ Consumed.value.type = "ContentBlockDelta"
          THEN /\ EmittedOne
               /\ Len(LastChunk.choices) = 1
               /\ LastChunk.choices[1].index = 0
               /\ LastChunk.choices[1].delta.content = Some(Consumed.value.delta.text)
               /\ LastChunk.choices[1].finish_reason = None
               /\ LastChunk.usage = None
          ELSE IF Consumed.ok /\ Consumed.value.type = "MessageDelta"
          THEN /\ EmittedOne
               /\ LastChunk.choices = <<>>
               /\ LastChunk.usage.some
          ELSE chunks' = chunks]_vars
  /\ [](Concat([i \in 1..Len(ContentChunks) |->
                  ContentChunks[i].choices[1].delta.content.value])
          = Concat([i \in 1..Len(ConsumedDeltas) |-> ConsumedDeltas[i].value.delta.text]))

\* the usage chunk of a message_delta stands between the chunks of the
\* deltas "he" and "llo", and an unparsable frame left no chunk
C19_Witness ==
  /\ Len(frames) = 4
  /\ Err("parse") \in Range(frames)
  /\ Len(chunks) = 3
  /\ chunks[1].choices # <<>> /\ chunks[1].choices[1].delta.content = Some(<<"h", "e">>)
  /\ chunks[2].usage.some
  /\ chunks[3].choices # <<>> /\ chunks[3].choices[1].delta.content = Some(<<"l", "l", "o">>)

\* the instants at which a content_block_delta was consumed
DeltaInstants ==
  {i \in 1..Len(frames) : frames[i].ok /\ frames[i].value.type = "ContentBlockDelta"}

\* the least element of a non-empty set of numbers
Least(S) == CHOOSE i \in S : \A j \in S : i <= j

\* C20: log.first_token is set if and only if at least one ContentBlockDelta
\* event was consumed, and it is written exactly once, at the first such
\* event: later ContentBlockDelta events never overwrite it, and no other
\* event kind or parse error sets it.
C20_FirstTokenOnce ==
  /\ [](log.first_token =
          IF DeltaInstants = {} THEN None ELSE Some(Least(DeltaInstants)))
  /\ [][log'.first_token # log.first_token =>
          /\ log.first_token = None
          /\ Consumed.ok
          /\ Consumed.value.type = "ContentBlockDelta"]_vars

\* first_token still holds the instant of the first of two deltas, which
\* came after another event
C20_Witness ==
  /\ log.first_token = Some(2)
  /\ Cardinality(DeltaInstants) >= 2

\* this step consumed a parsed event of the given type
Consumes(type) == frames' # frames /\ Consumed.ok /\ Consumed.value.type = type

\* the frames consumed that carry token counts, in order
TokenFrames ==
  SelectSeq(frames, LAMBDA f : f.ok /\ f.value.type \in {"MessageStart", "MessageDelta"})

\* C21: MessageStart records input_tokens_from_response and output_tokens
\* from the message usage; each MessageDelta sets output_tokens to its
\* usage.output_tokens and, only if input_tokens_from_response is already
\* set, sets total_tokens to input_tokens_from_response plus
\* usage.output_tokens.  So after MessageStart(in) followed by
\* MessageDelta(out) the log holds input = in, output = out, total = in + out.
C21_TokenAccounting ==
  /\ [][/\ Consumes("MessageStart") =>
             /\ log'.input_tokens_from_response
                  = Some(Consumed.value.message.usage.input_tokens)
             /\ log'.output_tokens = Some(Consumed.value.message.usage.output_tokens)
        /\ Consumes("MessageDelta") =>
             /\ log'.output_tokens = Some(Consumed.value.usage.output_tokens)
             /\ log'.total_tokens =
                  IF log.input_tokens_from_response.some
                  THEN Some(log.input_tokens_from_response.value
                              + Consumed.value.usage.output_tokens)
                  ELSE log.total_tokens]_vars
  /\ [](LET n == Len(TokenFrames)
        IN (/\ n >= 2
            /\ TokenFrames[n - 1].value.type = "MessageStart"
            /\ TokenFrames[n].value.type = "MessageDelta") =>
              LET in == TokenFrames[n - 1].value.message.usage.input_tokens
                  out == TokenFrames[n].value.usage.output_tokens
              IN /\ log.input_tokens_from_response = Some(in)
                 /\ log.output_tokens = Some(out)
                 /\ log.total_tokens = Some(in + out))

\* after message_start with 3 input tokens and message_delta with 2 output
\* tokens the log totals 5
C21_Witness ==
  /\ log.input_tokens_from_response = Some(3)
  /\ log.output_tokens = Some(2)
  /\ log.total_tokens = Some(5)

\* C22 as stated: the usage chunk emitted for a MessageDelta has
\* prompt_tokens equal to the input_tokens captured from MessageStart,
\* completion_tokens equal to the MessageDelta's usage.output_tokens, and
\* total_tokens equal to their sum.
C22_UsageChunkLabels ==
  [][Consumes("MessageDelta") =>
       /\ EmittedOne
       /\ LastChunk.usage.some
       /\ LastChunk.usage.value.prompt_tokens = input_tokens
       /\ LastChunk.usage.value.completion_tokens = Consumed.value.usage.output_tokens
       /\ LastChunk.usage.value.total_tokens
            = input_tokens + Consumed.value.usage.output_tokens]_vars

\* the messages of the request given that are not system messages
NonSystem == SelectSeq(req.value.messages, LAMBDA m : m.role # SYSTEM_ROLE)

\* the texts of the system messages of the request given, in order
SystemTexts ==
  LET sys == SelectSeq(req.value.messages,
                       LAMBDA m : m.role = SYSTEM_ROLE /\ m.content.some)
  IN [i \in 1..Len(sys) |-> sys[i].content.value]

\* the texts of a list of provider messages, in order
ProviderTexts(messages) == [i \in 1..Len(messages) |-> messages[i].content[1].text]

\* C23: translate_request sets system to the newline-joined text of all
\* system-role messages, in their original order (empty when there is
\* none), and no system-role message appears in the provider messages: these
\* are as many as, and carry the texts of, the other messages that have a
\* text.
C23_SystemJoined ==
  anthropic_message.some =>
     LET out == anthropic_message.value
         others == SelectSeq(NonSystem, LAMBDA m : m.content.some)
     IN /\ out.system = Join(SystemTexts, "\n")
        /\ (SystemTexts = <<>> => out.system = <<>>)
        /\ \A i \in 1..Len(out.messages) : out.messages[i].role \in {"User", "Assistant"}
        /\ ProviderTexts(out.messages) = [i \in 1..Len(others) |-> others[i].content.value]

\* two system prompts around a user message are joined by a newline, and
\* the user message alone is left
C23_Witness ==
  /\ req.some
  /\ Len(req.value.messages) = 3
  /\ req.value.messages[2].role = "user"
  /\ anthropic_message.some
  /\ anthropic_message.value.system = <<"s1", "\n", "hi">>
  /\ Len(anthropic_message.value.messages) = 1

\* the provider role of a universal role
ProviderRole(role) == IF role = ASSISTANT_ROLE THEN "Assistant" ELSE "User"

\* C24 as stated: every non-system message of the universal request,
\* content possibly null, maps to exactly one provider message, in the
\* original order, whose role is assistant iff the original role was
\* assistant and whose content is a single text block.
C24_Original ==
  anthropic_message.some =>
     LET out == anthropic_message.value.messages
     IN /\ Len(out) = Len(NonSystem)
        /\ \A i \in 1..Len(out) :
              /\ out[i].role = ProviderRole(NonSystem[i].role)
              /\ Len(out[i].content) = 1
              /\ out[i].content[1].type = "Text"

\* C24: every non-system message of the universal request whose content is
\* not null maps to exactly one provider message, in the original order,
\* whose role is assistant iff the original role was assistant (user for
\* every other role) and whose content is a single text block with the
\* message's text; a non-system message whose content is null maps to no
\* provider message.
C24_MessagesMapped ==
  anthropic_message.some =>
     LET out == anthropic_message.value.messages
         texted == SelectSeq(NonSystem, LAMBDA m : m.content.some)
     IN /\ Len(out) = Len(texted)
        /\ \A i \in 1..Len(out) :
              /\ out[i].role = ProviderRole(texted[i].role)
              /\ out[i].content = <<TextBlock(texted[i].content.value)>>

\* an assistant message, a user message without content and a tool message
\* became an assistant and a user message
C24_Witness ==
  /\ req.some
  /\ Len(req.value.messages) = 3
  /\ req.value.messages[1].role = ASSISTANT_ROLE
  /\ req.value.messages[2] = [role |-> "user", content |-> None]
  /\ req.value.messages[3].role = "tool"
  /\ anthropic_message.some
  /\ Len(anthropic_message.value.messages) = 2
  /\ anthropic_message.value.messages[1].role = "Assistant"
  /\ anthropic_message.value.messages[2].role = "User"

\* the Text blocks and the ToolUse blocks of the response given, in order
TextsOf(r) == SelectSeq(r.content, LAMBDA b : b.type = "Text")
ToolUsesOf(r) == SelectSeq(r.content, LAMBDA b : b.type = "ToolUse")

\* tool_calls lists one entry per ToolUse block, in block order
ToolCallsPerToolUse ==
  LET m == openai.value.choices[1].message
      uses == ToolUsesOf(resp.value)
      calls == IF m.tool_calls.some THEN m.tool_calls.value ELSE <<>>
  IN /\ Len(calls) = Len(uses)
     /\ \A i \in 1..Len(calls) :
           calls[i].id = uses[i].id /\ calls[i].function.name = uses[i].name

\* C25 as stated: translate_response sets choices[0].message.content to the
\* text of the first Text block of the provider response, also when the
\* response has several Text blocks, and to null when it has none;
\* tool_calls lists one entry per ToolUse block in block order.
C25_Original ==
  openai.some =>
     /\ openai.value.choices[1].message.content =
          IF TextsOf(resp.value) = <<>> THEN None
          ELSE Some(TextsOf(resp.value)[1].text)
     /\ ToolCallsPerToolUse

\* C25: translate_response sets choices[0].message.content to the text of
\* the last Text block of the provider response when the response has
\* several Text blocks (the only one when it has one), and to null when it
\* has none; tool_calls lists one entry per ToolUse block in block order.
C25_LastTextWins ==
  openai.some =>
     /\ openai.value.choices[1].message.content =
          IF TextsOf(resp.value) = <<>> THEN None
          ELSE Some(TextsOf(resp.value)[Len(TextsOf(resp.value))].text)
     /\ ToolCallsPerToolUse

\* a response with the blocks t1, tool use, t2 became content t2 with one
\* tool call
C25_Witness ==
  /\ resp.some
  /\ Len(resp.value.content) = 3
  /\ resp.value.content[1] = TextBlock(<<"t1">>)
  /\ resp.value.content[2].type = "ToolUse"
  /\ resp.value.content[3] = TextBlock(<<"t2">>)
  /\ openai.some
  /\ openai.value.choices[1].message.content = Some(<<"t2">>)
  /\ openai.value.choices[1].message.tool_calls.some
  /\ Len(openai.value.choices[1].message.tool_calls.value) = 1

(***************************************************************************)
(* The local config file: reloads and the PreviousState.                   *)
(***************************************************************************)
\* the step calls reload_config
ReloadCalled == Len(reload_log') = Len(reload_log) + 1

\* the call of reload_config the step made
LastReload == reload_log'[Len(reload_log')]

\* what the most recent successful reload of a log returned, the default
\* value when none succeeded
MostRecentOk(rlog) ==
  LET oks == {i \in 1..Len(rlog) : rlog[i].result.ok}
  IN IF oks = {}
     THEN PreviousState_default
     ELSE rlog[CHOOSE i \in oks : \A j \in oks : j <= i].result.value

\* C26 as stated: every reload of a watched file is handed what the most
\* recent successful reload returned, and after a failed reload the held
\* PreviousState is unchanged and the watcher goes on
C26_Original ==
  [][ReloadCalled /\ config_source = "File"
       => /\ LastReload.prev = MostRecentOk(reload_log)
          /\ ~LastReload.result.ok
               => next_state' = next_state /\ watch_pc' = "watching"]_vars

\* C26: every reload of a watched file is handed what the most recent
\* successful reload returned (the default value for the first); after a
\* failed reload the held PreviousState is unchanged, and the watcher goes on
\* when the reload was triggered by a file event, while a failure of the
\* first reload makes run return the error with no watch loop started
C26_PreviousStateHeld ==
  [][ReloadCalled /\ config_source = "File"
       => /\ LastReload.prev = MostRecentOk(reload_log)
          /\ ~LastReload.result.ok
               => /\ next_state' = next_state
                  /\ watch_pc' = IF reload_log = <<>> THEN "failed"
                                 ELSE "watching"]_vars

\* a watcher that is running after three reloads, the second of which failed
\* and the third of which was handed what the first returned
C26_Witness ==
  /\ config_source = "File"
  /\ watch_pc = "watching"
  /\ Len(reload_log) = 3
  /\ reload_log[1].result.ok
  /\ ~reload_log[2].result.ok
  /\ reload_log[3].prev = reload_log[1].result.value
  /\ reload_log[3].prev # PreviousState_default

\* C27: a reload either applies the binds sync and the discovery sync and
\* returns the new PreviousState, or fails and leaves the stores as they
\* were before it
C27_ReloadAtomic ==
  [][ReloadCalled
       => IF LastReload.result.ok
          THEN /\ stores'.binds =
                    (stores.binds \ LastReload.prev.binds)
                      \cup LastReload.result.value.binds
               /\ stores'.discovery =
                    (stores.discovery \ LastReload.prev.discovery)
                      \cup LastReload.result.value.discovery
               /\ next_state' = LastReload.result.value
          ELSE stores' = stores]_vars

(***************************************************************************)
(* Strng: allocations and reference counts.                                *)
(***************************************************************************)
\* the Strng values that share the allocation of strngs[i], itself included
Sharers(i) == {j \in 1..Len(strngs) : strngs[j].ptr = strngs[i].ptr}

\* strngs[j] was made from strngs[i] by a chain of clones (or is strngs[i])
RECURSIVE ClonedFrom(_, _)
ClonedFrom(j, i) ==
  IF j = i THEN TRUE
  ELSE IF strngs[j].from = 0 THEN FALSE
  ELSE ClonedFrom(strngs[j].from, i)

\* C28: values built by new are separate allocations even when their
\* contents are equal, a value never cloned
\* has strong count 1, a clone shares the allocation of its original and
\* makes no new one, and the common strong count of a value and its clones
\* is their number, while other values of equal content keep theirs
C28_CloneSharesAllocation ==
  /\ \A i, j \in 1..Len(strngs) :
       /\ strngs[i].ptr = strngs[j].ptr
            <=> \E o \in 1..Len(strngs) : ClonedFrom(i, o) /\ ClonedFrom(j, o)
       /\ strngs[i].ptr = strngs[j].ptr
            => strong_count(heap, strngs[i].ptr) = strong_count(heap, strngs[j].ptr)
  /\ \A i \in 1..Len(strngs) :
       strong_count(heap, strngs[i].ptr) = Some(Cardinality(Sharers(i)))
  /\ Len(heap) = Cardinality({i \in 1..Len(strngs) : strngs[i].from = 0})

\* the test's case: a and b built from "abc", c cloned from a; a and c
\* count 2, b counts 1 and equals a
C28_Witness ==
  /\ Len(strngs) = 3
  /\ strngs[1].from = 0 /\ strngs[2].from = 0 /\ strngs[3].from = 1
  /\ to_str(heap, strngs[1].ptr) = "abc"
  /\ to_str(heap, strngs[2].ptr) = to_str(heap, strngs[1].ptr)
  /\ strong_count(heap, strngs[1].ptr) = Some(2)
  /\ strong_count(heap, strngs[3].ptr) = Some(2)
  /\ strong_count(heap, strngs[2].ptr) = Some(1)

(***************************************************************************)
(* The select loop: one arm's body at a time.                              *)
(***************************************************************************)
\* the step runs a handler: a response is taken from the stream or a demand
\* event from the demand channel
RunsHandler ==
  \/ response_stream.some /\ response_stream.value.ok
       /\ response_stream.value.value.some /\ response_stream' = None
       /\ pc' = "stream"
  \/ Len(demand') < Len(demand)

\* C29: while the body of one arm is still awaiting its reply send, no
\* other response and no demand event is handled, the client state the
\* handlers own is not changed, and the next step of the client task is the
\* completion of that send
C29_OneAtATime ==
  [][sending.some
       => /\ ~RunsHandler
          /\ known_resources' = known_resources
          /\ pending' = pending
          /\ store' = store
          /\ sending' # sending => sending' = None]_vars

\* a demand event is queued while the reply to a response waits for room in
\* the request channel
C29_Witness ==
  /\ sending.some
  /\ sending.value.arm = "response"
  /\ Len(discovery_req) = ReqChannelBound
  /\ demand # <<>>

(***************************************************************************)
(* The outbound stream: initial requests first, then the channel in order. *)
(***************************************************************************)
\* the step is one yield of the outbound stream
YieldsRequest ==
  /\ pc = "stream" /\ pc' = "stream"
  /\ \/ Len(initial_requests') < Len(initial_requests)
     \/ Len(discovery_req') < Len(discovery_req)

\* C30: a connection starts with one initial request per registered type,
\* in registration order, and an empty request channel; every yield of the
\* outbound stream takes the first initial request left and touches the
\* channel only when none is left, and then takes the channel's oldest
\* request; every other step of the connection leaves the initial requests
\* alone and only adds requests at the end of the channel
C30_InitialRequestsFirst ==
  [][/\ pc = "run" /\ pc' = "stream"
          => /\ Len(initial_requests') = Len(config.initial_requests)
             /\ \A i \in 1..Len(initial_requests') :
                  initial_requests'[i].type_url = config.initial_requests[i].type_url
             /\ discovery_req' = <<>>
     /\ YieldsRequest
          => IF initial_requests # <<>>
             THEN /\ initial_requests' = Tail(initial_requests)
                  /\ discovery_req' = discovery_req
             ELSE discovery_req' = Tail(discovery_req)
     /\ pc = "stream" /\ pc' = "stream" /\ ~YieldsRequest
          => /\ initial_requests' = initial_requests
             /\ IsPrefix(discovery_req, discovery_req')]_vars

\* the reply to an early response waits in the channel behind an initial request not yet yielded
C30_Witness ==
  /\ pc = "stream"
  /\ Len(config.initial_requests) = 2
  /\ Len(initial_requests) = 1
  /\ discovery_req # <<>>
  /\ discovery_req[1].returned \in {"Ack", "Nack"}

(***************************************************************************)
(* Readiness of a client that expects no type.                             *)
(***************************************************************************)
\* C31: once the client has processed a response, types_to_expect being
\* empty implies that the readiness signal has been dropped, also for a
\* client none of whose watched types is awaited
C31_ReadyWhenNothingExpected ==
  [][HandlesResponse /\ pc' = "stream" /\ types_to_expect' = {}
       => ~block_ready']_vars

(***************************************************************************)
(* The connection-termination counter.                                     *)
(***************************************************************************)
\* the label the claim gives to an end of run_internal
TerminationLabel(result) ==
  IF result.ok THEN "Complete"
  ELSE CASE result.err.kind \in {"Connection", "Transport"} -> "ConnectionError"
         [] result.err.kind = "GrpcStatus" ->
              IF \/ result.err.status.code \in {"Cancelled", "DeadlineExceeded"}
                 \/ /\ result.err.status.code = "Unavailable"
                    /\ result.err.status.message \in TransientMessages
              THEN "Reconnect"
              ELSE "Error"
         [] OTHER -> "Error"

C33_InitialRequestShape ==
  \A d, a, b \in BOOLEAN :
    (connection_id = 0 /\ config = WatchedConfig(d, a, b))
      => /\ Len(config.initial_requests) = 2
         /\ config.initial_requests[1].type_url = ADDRESS_TYPE
         /\ config.initial_requests[2].type_url = ADP_TYPE
         /\ \A i \in 1..2 :
              LET r == config.initial_requests[i]
                  no_on_demand == IF i = 1 THEN a ELSE b
              IN /\ IF no_on_demand \/ ~d
                    THEN /\ r.resource_names_subscribe = <<>>
                         /\ r.resource_names_unsubscribe = <<>>
                    ELSE /\ r.resource_names_subscribe = <<"*">>
                         /\ r.resource_names_unsubscribe = <<"*">>
                 /\ r.type_url \in types_to_expect
                      <=> r.resource_names_subscribe = <<>>

\* an on-demand client, not yet run, one of whose handlers refuses
\* on-demand: that type is expected, the other subscribes to "*"
C33_Witness ==
  /\ connection_id = 0
  /\ config.on_demand
  /\ config.initial_requests[1].resource_names_subscribe = <<"*">>
  /\ config.initial_requests[2].resource_names_subscribe = <<>>
  /\ types_to_expect = {ADP_TYPE}

(***************************************************************************)
(* The backoff and its cap.                                                *)
(***************************************************************************)
RECURSIVE Pow2(_)
Pow2(k) == IF k = 0 THEN 1 ELSE 2 * Pow2(k - 1)

\* min(10 ms x 2^k, 15 s)
BackoffAfter(k) ==
  IF INITIAL_BACKOFF * Pow2(k) < MAX_BACKOFF
  THEN INITIAL_BACKOFF * Pow2(k) ELSE MAX_BACKOFF

\* C34: the backoff carried between iterations lies between 10 ms and 15 s,
\* and when the k latest iterations ended in connection errors, the backoff
\* having been reset before them, the client has slept
\* min(10 ms x 2^k, 15 s) and carries that value
C34_BackoffBounds ==
  /\ INITIAL_BACKOFF <= backoff /\ backoff <= MAX_BACKOFF
  /\ (pc = "run" /\ streak >= 1)
       => slept = BackoffAfter(streak) /\ backoff = BackoffAfter(streak)

\* twelve connection errors in a row: the cap was reached at the eleventh
\* and the twelfth sleep is 15 s again
C34_Witness ==
  /\ pc = "run"
  /\ streak = 12
  /\ slept = MAX_BACKOFF
  /\ backoff = MAX_BACKOFF

(***************************************************************************)
(* The identity of the chunks of one stream.                               *)
(***************************************************************************)
\* the places of the message_start events among the frames consumed
StartsConsumed ==
  {i \in 1..Len(frames) : frames[i].ok /\ frames[i].value.type = "MessageStart"}

\* C35: a chunk emitted before any message_start was consumed has id
\* "unknown" and an empty model, a chunk emitted after one has the id and the
\* model of the latest message_start consumed; every chunk has the created
\* value captured at the start of the stream, which never changes, and
\* object "chat.completion.chunk"
C35_ChunkIdentity ==
  [][/\ created' = created
     /\ EmittedOne
          => /\ IF StartsConsumed = {}
                THEN LastChunk.id = "unknown" /\ LastChunk.model = ""
                ELSE LET last == CHOOSE i \in StartsConsumed :
                                   \A j \in StartsConsumed : j <= i
                     IN /\ LastChunk.id = frames[last].value.message.id
                        /\ LastChunk.model = frames[last].value.message.model
             /\ LastChunk.created = created
             /\ LastChunk.object = "chat.completion.chunk"
             /\ \A i \in 1..Len(chunks) : chunks[i].created = LastChunk.created]_vars

\* a stream whose first chunk came before any message_start and whose
\* second chunk carries the id and the model of the message started since
C35_Witness ==
  /\ Len(chunks) = 2
  /\ chunks[1].id = "unknown" /\ chunks[1].model = ""
  /\ chunks[2].id = "r" /\ chunks[2].model = "m"
  /\ chunks[1].created = chunks[2].created

(***************************************************************************)
(* A second demand for a pending key.                                      *)
(***************************************************************************)
\* C36: when the demand handled is for a key that is already pending, the
\* key's notifier becomes the new caller's, the caller whose notifier it
\* replaces finds its Demanded closed, so that its recv returns, and no
\* response has been processed: the store and what the server advertised
\* are as before
C36_SecondDemandReplaces ==
  [][(HandlesDemand /\ Head(demand).key \in DOMAIN pending)
       => LET ev == Head(demand)
              earlier == pending[ev.key]
          IN /\ pending'[ev.key] = ev.tx
             /\ DOMAIN pending' = DOMAIN pending
             /\ earlier # ev.tx
                  => /\ rx[earlier].state = "open"
                     /\ rx'[earlier].state = "closed"
                     /\ \A k \in DOMAIN pending' : pending'[k] # earlier
             /\ rx'[ev.tx].state = "open"
             /\ store' = store
             /\ advertised' = advertised]_vars

\* a caller's Demanded is closed while the key it demanded is pending for
\* another caller, and the server has sent nothing
C36_Witness ==
  /\ pc = "stream"
  /\ \E c \in Callers :
       /\ rx[c].state = "closed"
       /\ rx[c].key \in DOMAIN pending
       /\ pending[rx[c].key] # c
       /\ rx[pending[rx[c].key]].state = "open"
  /\ \A t \in TypeUrls : advertised[t] = {} /\ store[t] = {}


\* a name the response lists whose resource is refused: decode_proto fails
\* on it or the handler rejects it
RefusedNames(msg) ==
  {msg.resources[i].name :
     i \in {j \in 1..Len(msg.resources) : msg.resources[j].resource # Some("valid")}}

\* C37: every name listed in the resources of a response of a handled type
\* is a member of known_resources[T] once the response is processed, and a
\* waiter pending for it is notified and its entry removed, also when that
\* resource failed to decode or was rejected by the handler, that is, also
\* when the reply is a NACK.
C37_ListedKnownAndNotified ==
  [][(HandlesResponse /\ InFlight.type_url \in config.handlers) =>
       LET t == InFlight.type_url
       IN /\ \A n \in ListedNames(InFlight) :
               LET k == ResourceKey(t, n)
               IN /\ n \in known_resources'[t]
                  /\ k \in DOMAIN pending =>
                       /\ k \notin DOMAIN pending'
                       /\ rx'[pending[k]].state = "notified"
          /\ (RefusedNames(InFlight) # {} /\ pc' = "stream") =>
               /\ PushedOne
               /\ LastPushed.returned = "Nack"
               /\ RefusedNames(InFlight) \subseteq known_resources'[t]]_vars

\* a response has been NACKed for a resource whose name is now known
\* although the store does not hold it, and the waiter for it was notified
C37_Witness ==
  \E c \in Callers : \E i \in 1..Len(discovery_req) :
     /\ rx[c].state = "notified"
     /\ ~rx[c].seen
     /\ rx[c].key \notin DOMAIN pending
     /\ rx[c].key.name \in known_resources[rx[c].key.type_url]
     /\ rx[c].key.name \notin store[rx[c].key.type_url]
     /\ discovery_req[i].returned = "Nack"
     /\ discovery_req[i].req.type_url = rx[c].key.type_url
     /\ rx[c].key.name \in Range(discovery_req[i].req.error_detail.value)


\* the names a response lists in resources and in removed_resources
ListedAndRemoved(msg) == ListedNames(msg) \cap RemovedNames(msg)

\* C38: within one response of a handled type the handler is given all the
\* upserts before all the removals, so the store is what the handler makes
\* of them in that order, whereas known_resources applies the removals
\* before the insertions; hence a name listed in both resources and
\* removed_resources ends as a member of known_resources[T] although the
\* last update the handler saw for it was its removal, which leaves the
\* store without it.
C38_UpsertsThenRemovals ==
  [][(HandlesResponse /\ InFlight.type_url \in config.handlers) =>
       LET t == InFlight.type_url
           updates == DecodedThenRemoved(InFlight)
       IN /\ store'[t] = Handler_handle(updates, store[t]).names
          /\ known_resources'[t] =
               (known_resources[t] \ RemovedNames(InFlight))
                 \cup ListedNames(InFlight)
          /\ \A n \in ListedAndRemoved(InFlight) :
               /\ n \in known_resources'[t]
               /\ n \notin store'[t]
               /\ \E i \in 1..Len(updates) :
                    /\ updates[i] = XdsUpdate_Remove(n)
                    /\ \A j \in (i + 1)..Len(updates) : updates[j].name # n]_vars

\* a response has been acknowledged, so the handler rejected nothing of it,
\* and a name is known for its type that the store does not hold
C38_Witness ==
  \E t \in config.handlers : \E n \in Names :
     /\ pc = "stream"
     /\ n \in known_resources[t]
     /\ n \in advertised[t]
     /\ n \notin store[t]
     /\ discovery_req # <<>>
     /\ discovery_req[Len(discovery_req)].returned = "Ack"
     /\ discovery_req[Len(discovery_req)].req.type_url = t
     /\ ~discovery_req[Len(discovery_req)].req.error_detail.some


\* the step is a turn of the watch loop, which takes the result delivered
Delivered == watch_pc = "watching" /\ watch_rx # <<>> /\ watch_rx' = <<>>

\* the batch holds a Modify or a Create event
TriggersReload(events) == \E e \in events : e \in {"Modify", "Create"}

\* C39: once the file watcher delivers an error result instead of a batch
\* of events, the watch loop ends and the watcher is dropped, after which
\* nothing is delivered and no reload is made; and a reload after the first
\* is made only by a turn of the loop that took a batch holding a Modify or
\* a Create event, so a batch without one triggers none.
C39_WatchLoopEnds ==
  [][/\ (Delivered /\ ~Head(watch_rx).ok) =>
          /\ watch_pc' = "ended"
          /\ ~ReloadCalled
          /\ stores' = stores
     /\ watch_pc = "ended" =>
          /\ watch_pc' = "ended"
          /\ watch_rx' = watch_rx
          /\ reload_log' = reload_log
          /\ stores' = stores
          /\ next_state' = next_state
     /\ (Delivered /\ Head(watch_rx).ok /\ ~TriggersReload(Head(watch_rx).value)) =>
          /\ ~ReloadCalled
          /\ watch_pc' = "watching"
          /\ stores' = stores
          /\ next_state' = next_state
     /\ (ReloadCalled /\ reload_log # <<>>) =>
          /\ Delivered
          /\ Head(watch_rx).ok
          /\ TriggersReload(Head(watch_rx).value)]_vars

\* the watch loop has ended after a reload that a file event triggered
C39_Witness ==
  /\ config_source = "File"
  /\ watch_pc = "ended"
  /\ watch_rx = <<>>
  /\ Len(reload_log) >= 2

====
